---- MODULE Spec2Model ----
(***************************************************************************)
(* Role / task allocation pipeline: response parsers, role selection,      *)
(* orchestrators and the breakdown formatter.                              *)
(*                                                                         *)
(* A Python str is modelled as a sequence of code points, each code point  *)
(* a TLA+ string: ASCII characters stand for themselves, and the non-ASCII *)
(* code points used by the program carry a name in angle brackets          *)
(* ("<art>" is U+1F3A8, "<vs16>" is the variation selector U+FE0F that     *)
(* follows U+2601, U+1F6E1 and U+25B6 in the source literals).             *)
(* A Python dict is modelled as a sequence of key/value records in         *)
(* insertion order.                                                        *)
(***************************************************************************)
EXTENDS Integers, Sequences, FiniteSets, TLC

VARIABLES
    pc,           \* "idle", "invoking" (suspended in the generation call) or "done"
    op,           \* the entry point that was called
    description,  \* the project description passed in
    roles,        \* the roles handed to the generation call
    gen,          \* the generation call's outcome: "none", "returned" or "raised"
    text,         \* the text the generation call returned, or the text parsed
    ret,          \* how the entry point ended: [kind, val]
    invocations,  \* how often the current call has invoked the task generation
    instance,     \* the parser instance that is called repeatedly: its first call
                  \* and the mapping its latest call returned
    requests      \* the POST /breakdown requests in flight, each with its own locals

vars == <<pc, op, description, roles, gen, text, ret, invocations, instance, requests>>

-----------------------------------------------------------------------------
(* Bounds of the model *)

\* Longest text handed to a parser called on its own, in fragments of OutputParts.
MaxParts == 2

\* Longest text returned by the generation call inside an entry point, in fragments.
MaxGenParts == 2

\* Longest text handed to the output formatter called on its own, in fragments of
\* FormattedParts.
MaxFormattedParts == 3

\* Longest description handed to the role selector called on its own, in fragments
\* of DescriptionParts.
MaxDescriptionParts == 2

\* Longest text returned by the role analysis call, in fragments of AnalysisParts.
MaxAnalysisParts == 2

\* Longest text of JSON documents handed to SmartTaskParser, in fragments of
\* DocumentParts.
MaxDocumentParts == 3

-----------------------------------------------------------------------------
(* str primitives *)

Whitespace == {" ", "\n", "\t", "\r"}

Digits == {"0", "1", "2", "3", "4", "5", "6", "7", "8", "9"}

UpperSeq == <<"A","B","C","D","E","F","G","H","I","J","K","L","M","N","O","P","Q","R","S","T","U","V","W","X","Y","Z">>

LowerSeq == <<"a","b","c","d","e","f","g","h","i","j","k","l","m","n","o","p","q","r","s","t","u","v","w","x","y","z">>

UpperLetters == {UpperSeq[i] : i \in 1..Len(UpperSeq)}

LowerLetters == {LowerSeq[i] : i \in 1..Len(LowerSeq)}

\* c in s
HasChar(s, c) == \E i \in 1..Len(s) : s[i] = c

\* s.find(c), 1-based; 0 when absent
Find(s, c) ==
    IF HasChar(s, c)
    THEN CHOOSE i \in 1..Len(s) : s[i] = c /\ \A j \in 1..(i - 1) : s[j] # c
    ELSE 0

\* s.rfind(c), 1-based; 0 when absent
RFind(s, c) ==
    IF HasChar(s, c)
    THEN CHOOSE i \in 1..Len(s) : s[i] = c /\ \A j \in (i + 1)..Len(s) : s[j] # c
    ELSE 0

\* sub in s
Contains(s, sub) ==
    \E i \in 1..(Len(s) - Len(sub) + 1) : SubSeq(s, i, i + Len(sub) - 1) = sub

\* s.startswith(p)
StartsWith(s, p) == Len(s) >= Len(p) /\ SubSeq(s, 1, Len(p)) = p

\* s.endswith(p)
EndsWith(s, p) == Len(s) >= Len(p) /\ SubSeq(s, Len(s) - Len(p) + 1, Len(s)) = p

\* index of the first code point at or after i that is not in cls; Len(s)+1 if none
SkipClass(s, i, cls) ==
    IF \E j \in i..Len(s) : s[j] \notin cls
    THEN CHOOSE j \in i..Len(s) : s[j] \notin cls /\ \A k \in i..(j - 1) : s[k] \in cls
    ELSE Len(s) + 1

\* s.lstrip()
LStrip(s) == SubSeq(s, SkipClass(s, 1, Whitespace), Len(s))

\* s.rstrip()
RStrip(s) ==
    IF \E j \in 1..Len(s) : s[j] \notin Whitespace
    THEN SubSeq(s, 1, CHOOSE j \in 1..Len(s) :
                          s[j] \notin Whitespace /\ \A k \in (j + 1)..Len(s) : s[k] \in Whitespace)
    ELSE <<>>

\* s.strip()
Strip(s) == LStrip(RStrip(s))

\* s.split(c) for a one-code-point separator
Split(s, c) ==
    LET P == {i \in 1..Len(s) : s[i] = c}
        n == Cardinality(P)
        Nth(k) == IF k = 0 THEN 0
                  ELSE IF k = n + 1 THEN Len(s) + 1
                  ELSE CHOOSE i \in P : Cardinality({j \in P : j < i}) = k - 1
    IN  [k \in 1..(n + 1) |-> SubSeq(s, Nth(k - 1) + 1, Nth(k) - 1)]

\* sep.join(parts)
RECURSIVE Join(_, _)
Join(parts, sep) ==
    IF Len(parts) = 0 THEN <<>>
    ELSE IF Len(parts) = 1 THEN parts[1]
    ELSE parts[1] \o sep \o Join(Tail(parts), sep)

\* s.replace(c, "") for a one-code-point c
RemoveChar(s, c) == SelectSeq(s, LAMBDA x : x # c)

\* s.replace(sub, "") / re.sub(sub, '', s) for a literal sub: leftmost, non-overlapping
RECURSIVE RemoveAll(_, _)
RemoveAll(s, sub) ==
    IF Len(s) < Len(sub) THEN s
    ELSE IF SubSeq(s, 1, Len(sub)) = sub THEN RemoveAll(SubSeq(s, Len(sub) + 1, Len(s)), sub)
    ELSE <<s[1]>> \o RemoveAll(Tail(s), sub)

\* re.sub(r'^[cls]\s*', '', s): one code point of cls at the start, and the whitespace after it
SubLeadingClass(s, cls) ==
    IF Len(s) >= 1 /\ s[1] \in cls
    THEN SubSeq(s, SkipClass(s, 2, Whitespace), Len(s))
    ELSE s

\* c.upper() / c.lower() on one code point
UpperChar(c) ==
    IF c \in LowerLetters THEN UpperSeq[CHOOSE i \in 1..26 : LowerSeq[i] = c] ELSE c

LowerChar(c) ==
    IF c \in UpperLetters THEN LowerSeq[CHOOSE i \in 1..26 : UpperSeq[i] = c] ELSE c

\* s.upper(), s.lower()
Upper(s) == [i \in 1..Len(s) |-> UpperChar(s[i])]

Lower(s) == [i \in 1..Len(s) |-> LowerChar(s[i])]

\* s.isupper(): at least one cased code point and no lowercase one
IsUpper(s) ==
    /\ \E i \in 1..Len(s) : s[i] \in UpperLetters
    /\ \A i \in 1..Len(s) : s[i] \notin LowerLetters

-----------------------------------------------------------------------------
(* Python values: str, list, dict, int, and the JSON literals *)

PyStr(s) == [t |-> "str", s |-> s, n |-> 0, items |-> <<>>]

PyInt(n) == [t |-> "int", s |-> <<>>, n |-> n, items |-> <<>>]

\* a JSON number, kept as its lexeme
PyNum(lexeme) == [t |-> "num", s |-> lexeme, n |-> 0, items |-> <<>>]

\* None, True, False, nan, inf, -inf, kept as the JSON lexeme
PyLit(lexeme) == [t |-> "lit", s |-> lexeme, n |-> 0, items |-> <<>>]

PyList(items) == [t |-> "list", s |-> <<>>, n |-> 0, items |-> items]

\* items: sequence of [k |-> str, v |-> value], keys unique, insertion order
PyDict(items) == [t |-> "dict", s |-> <<>>, n |-> 0, items |-> items]

EmptyDict == PyDict(<<>>)

\* k in d
HasKey(d, k) == \E i \in 1..Len(d.items) : d.items[i].k = k

\* d[k]
Get(d, k) == d.items[CHOOSE i \in 1..Len(d.items) : d.items[i].k = k].v

\* d[k] = v : an existing key keeps its position
DictSet(d, k, v) ==
    IF HasKey(d, k)
    THEN PyDict([i \in 1..Len(d.items) |->
                    IF d.items[i].k = k THEN [k |-> k, v |-> v] ELSE d.items[i]])
    ELSE PyDict(Append(d.items, [k |-> k, v |-> v]))

\* list(d.keys())
Keys(d) == [i \in 1..Len(d.items) |-> d.items[i].k]

\* a list of str as a Python value, and back
StrList(ss) == PyList([i \in 1..Len(ss) |-> PyStr(ss[i])])

\* sum(len(tasks) for tasks in d.values())
RECURSIVE SumLens(_)
SumLens(items) ==
    IF Len(items) = 0 THEN 0 ELSE Len(items[1].v.items) + SumLens(Tail(items))

\* bool(v) for the values the program tests
Truthy(v) ==
    CASE v.t = "str" -> Len(v.s) > 0
      [] v.t \in {"list", "dict"} -> Len(v.items) > 0
      [] v.t = "int" -> v.n # 0
      [] OTHER -> v.s \notin {<<"n","u","l","l">>, <<"f","a","l","s","e">>}

-----------------------------------------------------------------------------
(* json.loads, for documents without \u escapes *)

JsonWhitespace == {" ", "\t", "\n", "\r"}

JsonLiterals == {<<"n","u","l","l">>, <<"t","r","u","e">>, <<"f","a","l","s","e">>, <<"N","a","N">>, <<"I","n","f","i","n","i","t","y">>, <<"-","I","n","f","i","n","i","t","y">>}

JsonEscapes == {"\"", "\\", "/", "b", "f", "n", "r", "t"}

JsonFail == [ok |-> FALSE, v |-> PyLit(<<"n","u","l","l">>), pos |-> 0]

JsonOk(v, pos) == [ok |-> TRUE, v |-> v, pos |-> pos]

\* last index of the run of digits that starts at i (i - 1 when s[i] is no digit)
DigitRunEnd(s, i) == SkipClass(s, i, Digits) - 1

\* py_scanstring in strict mode, from the code point after the opening quote
RECURSIVE JsonString(_, _, _)
JsonString(s, i, acc) ==
    IF i > Len(s) THEN JsonFail
    ELSE IF s[i] = "\"" THEN JsonOk(PyStr(acc), i + 1)
    ELSE IF s[i] \in {"\n", "\t", "\r"} THEN JsonFail
    ELSE IF s[i] = "\\"
         THEN IF i + 1 <= Len(s) /\ s[i + 1] \in JsonEscapes
              THEN JsonString(s, i + 2,
                       Append(acc, CASE s[i + 1] = "n" -> "\n"
                                     [] s[i + 1] = "t" -> "\t"
                                     [] s[i + 1] = "r" -> "\r"
                                     [] s[i + 1] = "b" -> "<bs>"
                                     [] s[i + 1] = "f" -> "<ff>"
                                     [] OTHER -> s[i + 1]))
              ELSE JsonFail
    ELSE JsonString(s, i + 1, Append(acc, s[i]))

\* NUMBER_RE: (-?(?:0|[1-9]\d*))(\.\d+)?([eE][-+]?\d+)? matched at i
JsonNumber(s, i) ==
    LET d0 == IF i <= Len(s) /\ s[i] = "-" THEN i + 1 ELSE i
        intEnd == IF d0 <= Len(s) /\ s[d0] = "0" THEN d0 ELSE DigitRunEnd(s, d0)
        fracEnd == IF intEnd + 2 <= Len(s) /\ s[intEnd + 1] = "." /\ s[intEnd + 2] \in Digits
                   THEN DigitRunEnd(s, intEnd + 2) ELSE intEnd
        e0 == IF fracEnd + 2 <= Len(s) /\ s[fracEnd + 1] \in {"e", "E"}
                    /\ s[fracEnd + 2] \in {"+", "-"}
              THEN fracEnd + 3 ELSE fracEnd + 2
        expEnd == IF fracEnd + 1 <= Len(s) /\ s[fracEnd + 1] \in {"e", "E"}
                        /\ e0 <= Len(s) /\ s[e0] \in Digits
                  THEN DigitRunEnd(s, e0) ELSE fracEnd
    IN  IF d0 <= Len(s) /\ s[d0] \in Digits
        THEN JsonOk(PyNum(SubSeq(s, i, expEnd)), expEnd + 1)
        ELSE JsonFail

RECURSIVE JsonValue(_, _)
RECURSIVE JsonMembers(_, _, _)
RECURSIVE JsonElements(_, _, _)

\* JSONObject's loop, at the opening quote of a key
JsonMembers(s, i, d) ==
    LET key == JsonString(s, i + 1, <<>>)
        c == SkipClass(s, key.pos, JsonWhitespace)
        v0 == SkipClass(s, c + 1, JsonWhitespace)
        val == JsonValue(s, v0)
        n == SkipClass(s, val.pos, JsonWhitespace)
        k2 == SkipClass(s, n + 1, JsonWhitespace)
    IN  IF ~key.ok THEN JsonFail
        ELSE IF c > Len(s) \/ s[c] # ":" THEN JsonFail
        ELSE IF ~val.ok THEN JsonFail
        ELSE IF n > Len(s) THEN JsonFail
        ELSE IF s[n] = "}" THEN JsonOk(DictSet(d, key.v.s, val.v), n + 1)
        ELSE IF s[n] # "," THEN JsonFail
        ELSE IF k2 > Len(s) \/ s[k2] # "\"" THEN JsonFail
        ELSE JsonMembers(s, k2, DictSet(d, key.v.s, val.v))

\* JSONArray's loop, at the start of an element
JsonElements(s, i, acc) ==
    LET val == JsonValue(s, i)
        n == SkipClass(s, val.pos, JsonWhitespace)
    IN  IF ~val.ok THEN JsonFail
        ELSE IF n > Len(s) THEN JsonFail
        ELSE IF s[n] = "]" THEN JsonOk(PyList(Append(acc, val.v)), n + 1)
        ELSE IF s[n] # "," THEN JsonFail
        ELSE JsonElements(s, SkipClass(s, n + 1, JsonWhitespace), Append(acc, val.v))

\* scan_once at index i
JsonValue(s, i) ==
    IF i > Len(s) THEN JsonFail
    ELSE IF s[i] = "\"" THEN JsonString(s, i + 1, <<>>)
    ELSE IF s[i] = "{"
         THEN LET k == SkipClass(s, i + 1, JsonWhitespace)
              IN  IF k > Len(s) THEN JsonFail
                  ELSE IF s[k] = "}" THEN JsonOk(EmptyDict, k + 1)
                  ELSE IF s[k] # "\"" THEN JsonFail
                  ELSE JsonMembers(s, k, EmptyDict)
    ELSE IF s[i] = "["
         THEN LET k == SkipClass(s, i + 1, JsonWhitespace)
              IN  IF k > Len(s) THEN JsonFail
                  ELSE IF s[k] = "]" THEN JsonOk(PyList(<<>>), k + 1)
                  ELSE JsonElements(s, k, <<>>)
    ELSE IF \E l \in JsonLiterals : StartsWith(SubSeq(s, i, Len(s)), l)
         THEN LET l == CHOOSE l \in JsonLiterals : StartsWith(SubSeq(s, i, Len(s)), l)
              IN  JsonOk(PyLit(l), i + Len(l))
    ELSE JsonNumber(s, i)

\* json.loads(s): ok is FALSE where it raises JSONDecodeError
JsonLoads(s) ==
    LET r == JsonValue(s, SkipClass(s, 1, JsonWhitespace))
    IN  IF r.ok /\ SkipClass(s, r.pos, JsonWhitespace) > Len(s) THEN r ELSE JsonFail

-----------------------------------------------------------------------------
(* src/1.py: SmartTaskParser *)

\* the character class of the role-name clean-up, line 63
RoleEmojiClass ==
    {"<art>", "<zap>", "<robot>", "<cloud>", "<vs16>", "<disk>", "<target>", "<mag>",
     "<chart>", "<shield>", "<phone>", "<globe>"}

\* the character class of the task pattern, line 69: [\d+\.\-\*...]
TaskLeadClass ==
    Digits \cup {"+", ".", "-", "*", "<bullet>", "<play>", "<vs16>", "<sparkles>",
                 "<wrench>", "<star>", "<rocket>"}

\* the character class of the task clean-up, line 73
TaskEmojiClass == {"<play>", "<vs16>", "<sparkles>", "<wrench>", "<star>", "<rocket>"}

\* the prefixes that keep a line with a colon from being a role header, line 55
NumberedPrefixes == {<<"1",".">>, <<"2",".">>, <<"3",".">>, <<"4",".">>, <<"5",".">>, <<"6",".">>, <<"7",".">>, <<"8",".">>}

\* a task is kept when len(task_text) > 15, line 75
MinTaskLen == 15

\* SaveRole without the test of current_tasks: a role with no task is saved
SaveRole_KeepsEmptyRole(st) ==
    IF Len(st.current_role) > 0
    THEN DictSet(st.roles_tasks, st.current_role, StrList(st.current_tasks))
    ELSE st.roles_tasks

\* lines 57-58 and 79-80: if current_role and current_tasks: roles_tasks[current_role] = ...
SaveRole(st) ==
    IF Len(st.current_role) > 0 /\ Len(st.current_tasks) > 0
    THEN DictSet(st.roles_tasks, st.current_role, StrList(st.current_tasks))
    ELSE st.roles_tasks

\* lines 61-64: the role name of a header line
CleanRoleName(line) ==
    Strip(RemoveAll(SubLeadingClass(Strip(Split(line, ":")[1]), RoleEmojiClass), <<"*","*">>))

\* lines 69-73: the task text of a line, <<>> when the pattern does not match.
\* The line is stripped, so after the one leading code point \s* takes all the
\* whitespace and (.+) the rest, which must not be empty.
TaskText(line) ==
    IF Len(line) >= 2 /\ line[1] \in TaskLeadClass
    THEN SubLeadingClass(Strip(SubSeq(line, SkipClass(line, 2, Whitespace), Len(line))),
                         TaskEmojiClass)
    ELSE <<>>

\* line 69: task_match is not None
TaskMatches(line) == Len(line) >= 2 /\ line[1] \in TaskLeadClass

\* line 55: the line is a role header
IsRoleHeader(line) ==
    HasChar(line, ":") /\ ~\E p \in NumberedPrefixes : StartsWith(line, p)

\* ScanLine whose header branch keeps current_tasks: the tasks of the role before
\* are carried into the new role
ScanLine_KeepsTasks(st, raw) ==
    LET line == Strip(raw)
        task_text == TaskText(line)
    IN
    IF Len(line) = 0 \/ line[1] \in {"=", "-", "*"} THEN st
    ELSE IF IsRoleHeader(line)
         THEN [roles_tasks |-> SaveRole(st),
               current_role |-> CleanRoleName(line),
               current_tasks |-> st.current_tasks]
    ELSE IF TaskMatches(line) /\ Len(st.current_role) > 0 /\ Len(task_text) > MinTaskLen
         THEN [st EXCEPT !.current_tasks = Append(@, task_text)]
    ELSE st

\* lines 47-76: one iteration of the loop, on the raw line.
\* current_role None and "" are both falsy and are both modelled as <<>>.
ScanLine(st, raw) ==
    LET line == Strip(raw)
        task_text == TaskText(line)
    IN
    IF Len(line) = 0 \/ line[1] \in {"=", "-", "*"} THEN st
    ELSE IF IsRoleHeader(line)
         THEN [roles_tasks |-> SaveRole(st),
               current_role |-> CleanRoleName(line),
               current_tasks |-> <<>>]
    ELSE IF TaskMatches(line) /\ Len(st.current_role) > 0 /\ Len(task_text) > MinTaskLen
         THEN [st EXCEPT !.current_tasks = Append(@, task_text)]
    ELSE st

RECURSIVE ScanLines(_, _, _)
ScanLines(lines, i, st) ==
    IF i > Len(lines) THEN st ELSE ScanLines(lines, i + 1, ScanLine(st, lines[i]))

\* lines 42-82: the text fallback
TextParse(t) ==
    SaveRole(ScanLines(Split(Strip(t), "\n"), 1,
                       [roles_tasks |-> EmptyDict, current_role |-> <<>>, current_tasks |-> <<>>]))

\* lines 23-27: the slice from the first '{' to the last '}', decoded
JsonSlice(t) ==
    IF HasChar(t, "{") /\ HasChar(t, "}")
    THEN JsonLoads(SubSeq(t, Find(t, "{"), RFind(t, "}")))
    ELSE JsonFail

\* lines 30-36: what the JSON branch returns
JsonResult(parsed_json) ==
    IF HasKey(parsed_json, <<"r","o","l","e","_","t","a","s","k","s">>) THEN Get(parsed_json, <<"r","o","l","e","_","t","a","s","k","s">>)
    ELSE IF HasKey(parsed_json, <<"t","a","s","k","s">>) THEN Get(parsed_json, <<"t","a","s","k","s">>)
    ELSE parsed_json

\* SmartTaskParser.parse, lines 18-82
SmartTaskParser_parse(t) ==
    LET sliced == JsonSlice(t)
    IN  IF sliced.ok THEN JsonResult(sliced.v) ELSE TextParse(t)

-----------------------------------------------------------------------------
(* src/task_agent.py and src/2.py: SmartProjectTaskParser *)

\* re.split on a pattern that consumes the one code point at each index of cuts
SplitAt(s, cuts) ==
    LET n == Cardinality(cuts)
        Nth(k) == IF k = 0 THEN 0
                  ELSE IF k = n + 1 THEN Len(s) + 1
                  ELSE CHOOSE i \in cuts : Cardinality({j \in cuts : j < i}) = k - 1
    IN  [k \in 1..(n + 1) |-> SubSeq(s, Nth(k - 1) + 1, Nth(k) - 1)]

\* [A-Z][^:]*: matches at index i
HeaderAhead(s, i) ==
    /\ i <= Len(s)
    /\ s[i] \in UpperLetters
    /\ \E j \in (i + 1)..Len(s) : s[j] = ":"

\* task_agent.py line 21: the newlines matched by \n(?=[A-Z][^:]*:)
PlainCuts(s) == {i \in 1..Len(s) : s[i] = "\n" /\ HeaderAhead(s, i + 1)}

\* the emoji literals of 2.py lines 16 and 19
RoleEmojis ==
    {<<"<art>">>, <<"<zap>">>, <<"<robot>">>, <<"<cloud>","<vs16>">>, <<"<disk>">>, <<"<target>">>, <<"<mag>">>, <<"<chart>">>, <<"<shield>","<vs16>">>, <<"<phone>">>, <<"<globe>">>}

\* 2.py line 16: the newlines matched by \n(?=(?:emoji)\s*[A-Z][^:]*:)
EmojiCuts(s) ==
    {i \in 1..Len(s) :
        /\ s[i] = "\n"
        /\ \E e \in RoleEmojis :
              /\ StartsWith(SubSeq(s, i + 1, Len(s)), e)
              /\ HeaderAhead(s, SkipClass(s, i + 1 + Len(e), Whitespace))}

\* the character class of the task clean-up: [-...\d+\.\)]
BulletClass == Digits \cup {"-", "<bullet>", "*", "+", ".", ")"}

\* the character class of the second task clean-up of 2.py, line 32
TaskEmojiClass2 ==
    {"<play>", "<vs16>", "<sparkles>", "<wrench>", "<star>", "<rocket>", "<bulb>",
     "<target>", "<fire>"}

\* a task is kept when len(task) > 10
MinSectionTaskLen == 10

\* a role is kept when len(tasks) >= 2
MinRoleTasks == 2

\* re.sub(r'[cls]\s*', '', s): every code point of cls, with the whitespace after it
RECURSIVE SubClassEverywhere(_, _)
SubClassEverywhere(s, cls) ==
    IF Len(s) = 0 THEN s
    ELSE IF s[1] \in cls
         THEN SubClassEverywhere(SubSeq(s, SkipClass(s, 2, Whitespace), Len(s)), cls)
    ELSE <<s[1]>> \o SubClassEverywhere(Tail(s), cls)

\* task_agent.py lines 33-36: the cleaned task of a body line, <<>> for a skipped line
PlainTask(raw) ==
    LET line == Strip(raw) IN
    IF Len(line) = 0 \/ StartsWith(line, <<"#">>) \/ StartsWith(line, <<"-","-","-">>) THEN <<>>
    ELSE Strip(SubLeadingClass(line, BulletClass))

\* 2.py lines 28-32
EmojiTask(raw) == Strip(SubLeadingClass(PlainTask(raw), TaskEmojiClass2))

\* SectionTasks without the length test: every cleaned body line is a task
RECURSIVE SectionTasks_NoLengthTest(_, _, _)
SectionTasks_NoLengthTest(lines, i, emoji) ==
    IF i > Len(lines) THEN <<>>
    ELSE LET task == IF emoji THEN EmojiTask(lines[i]) ELSE PlainTask(lines[i])
         IN  (IF Len(task) > 0 THEN <<task>> ELSE <<>>)
                 \o SectionTasks_NoLengthTest(lines, i + 1, emoji)

\* the tasks of a section: the cleaned body lines longer than MinSectionTaskLen
RECURSIVE SectionTasks(_, _, _)
SectionTasks(lines, i, emoji) ==
    IF i > Len(lines) THEN <<>>
    ELSE LET task == IF emoji THEN EmojiTask(lines[i]) ELSE PlainTask(lines[i])
         IN  (IF Len(task) > MinSectionTaskLen THEN <<task>> ELSE <<>>)
                 \o SectionTasks(lines, i + 1, emoji)

\* task_agent.py line 29 and 2.py line 24: the role name of a section
SectionRole(role_line, emoji) ==
    Strip(RemoveChar(IF emoji THEN SubClassEverywhere(role_line, RoleEmojiClass)
                     ELSE role_line, ":"))

\* the body of the loop over sections
AddSection(roles_tasks, section, emoji) ==
    LET lines == Split(Strip(section), "\n")
        tasks == SectionTasks(lines, 2, emoji)
    IN  IF /\ HasChar(section, ":")
           /\ (emoji => \E e \in RoleEmojis : Contains(section, e))
           /\ Len(tasks) >= MinRoleTasks
        THEN DictSet(roles_tasks, SectionRole(lines[1], emoji), StrList(tasks))
        ELSE roles_tasks

RECURSIVE AddSections(_, _, _, _)
AddSections(roles_tasks, sections, i, emoji) ==
    IF i > Len(sections) THEN roles_tasks
    ELSE AddSections(AddSection(roles_tasks, sections[i], emoji), sections, i + 1, emoji)

\* task_agent.py SmartProjectTaskParser.parse, lines 17-44
PlainSectionParse(t) ==
    AddSections(EmptyDict, SplitAt(Strip(t), PlainCuts(Strip(t))), 1, FALSE)

\* 2.py SmartProjectTaskParser.parse, lines 12-40
EmojiSectionParse(t) ==
    AddSections(EmptyDict, SplitAt(Strip(t), EmojiCuts(Strip(t))), 1, TRUE)

-----------------------------------------------------------------------------
(* src/2.py: IntelligentRoleSelector *)

\* lines 45-90, in the dict's iteration order
ROLE_KEYWORDS ==
    << [role |-> <<"F","r","o","n","t","e","n","d"," ","D","e","v","e","l","o","p","e","r">>, emoji |-> <<"<art>">>,
        keywords |-> <<<<"u","i">>, <<"f","r","o","n","t","e","n","d">>, <<"r","e","a","c","t">>, <<"v","u","e">>, <<"a","n","g","u","l","a","r">>, <<"w","e","b"," ","i","n","t","e","r","f","a","c","e">>, <<"d","a","s","h","b","o","a","r","d">>, <<"u","s","e","r"," ","i","n","t","e","r","f","a","c","e">>, <<"r","e","s","p","o","n","s","i","v","e">>, <<"m","o","b","i","l","e"," ","a","p","p">>, <<"i","o","s">>, <<"a","n","d","r","o","i","d">>>>],
       [role |-> <<"B","a","c","k","e","n","d"," ","D","e","v","e","l","o","p","e","r">>, emoji |-> <<"<zap>">>,
        keywords |-> <<<<"a","p","i">>, <<"b","a","c","k","e","n","d">>, <<"s","e","r","v","e","r">>, <<"d","a","t","a","b","a","s","e">>, <<"a","u","t","h","e","n","t","i","c","a","t","i","o","n">>, <<"m","i","c","r","o","s","e","r","v","i","c","e","s">>, <<"r","e","s","t">>, <<"g","r","a","p","h","q","l">>, <<"n","o","d","e">>, <<"p","y","t","h","o","n">>, <<"j","a","v","a">>>>],
       [role |-> <<"A","I","/","M","L"," ","E","n","g","i","n","e","e","r">>, emoji |-> <<"<robot>">>,
        keywords |-> <<<<"a","i">>, <<"m","a","c","h","i","n","e"," ","l","e","a","r","n","i","n","g">>, <<"m","l">>, <<"d","e","e","p"," ","l","e","a","r","n","i","n","g">>, <<"n","l","p">>, <<"c","o","m","p","u","t","e","r"," ","v","i","s","i","o","n">>, <<"n","e","u","r","a","l"," ","n","e","t","w","o","r","k">>, <<"t","e","n","s","o","r","f","l","o","w">>, <<"p","y","t","o","r","c","h">>, <<"m","o","d","e","l">>>>],
       [role |-> <<"C","l","o","u","d"," ","&"," ","D","e","v","O","p","s"," ","E","n","g","i","n","e","e","r">>, emoji |-> <<"<cloud>","<vs16>">>,
        keywords |-> <<<<"c","l","o","u","d">>, <<"a","w","s">>, <<"a","z","u","r","e">>, <<"g","c","p">>, <<"d","o","c","k","e","r">>, <<"k","u","b","e","r","n","e","t","e","s">>, <<"c","i","/","c","d">>, <<"d","e","p","l","o","y","m","e","n","t">>, <<"i","n","f","r","a","s","t","r","u","c","t","u","r","e">>, <<"d","e","v","o","p","s">>, <<"s","c","a","l","a","b","i","l","i","t","y">>>>],
       [role |-> <<"D","a","t","a"," ","E","n","g","i","n","e","e","r">>, emoji |-> <<"<disk>">>,
        keywords |-> <<<<"d","a","t","a"," ","p","i","p","e","l","i","n","e">>, <<"e","t","l">>, <<"b","i","g"," ","d","a","t","a">>, <<"d","a","t","a"," ","w","a","r","e","h","o","u","s","e">>, <<"a","n","a","l","y","t","i","c","s">>, <<"k","a","f","k","a">>, <<"s","p","a","r","k">>, <<"a","i","r","f","l","o","w">>, <<"d","a","t","a"," ","p","r","o","c","e","s","s","i","n","g">>>>],
       [role |-> <<"U","I","/","U","X"," ","D","e","s","i","g","n","e","r">>, emoji |-> <<"<target>">>,
        keywords |-> <<<<"d","e","s","i","g","n">>, <<"u","s","e","r"," ","e","x","p","e","r","i","e","n","c","e">>, <<"u","x">>, <<"u","i"," ","d","e","s","i","g","n">>, <<"w","i","r","e","f","r","a","m","e">>, <<"p","r","o","t","o","t","y","p","e">>, <<"f","i","g","m","a">>, <<"u","s","e","r"," ","j","o","u","r","n","e","y">>, <<"b","r","a","n","d","i","n","g">>>>],
       [role |-> <<"Q","A"," ","E","n","g","i","n","e","e","r">>, emoji |-> <<"<mag>">>,
        keywords |-> <<<<"t","e","s","t","i","n","g">>, <<"q","a">>, <<"q","u","a","l","i","t","y"," ","a","s","s","u","r","a","n","c","e">>, <<"a","u","t","o","m","a","t","i","o","n"," ","t","e","s","t","i","n","g">>, <<"s","e","l","e","n","i","u","m">>, <<"t","e","s","t"," ","c","a","s","e","s">>, <<"b","u","g"," ","t","r","a","c","k","i","n","g">>>>],
       [role |-> <<"D","a","t","a"," ","S","c","i","e","n","t","i","s","t">>, emoji |-> <<"<chart>">>,
        keywords |-> <<<<"d","a","t","a"," ","a","n","a","l","y","s","i","s">>, <<"s","t","a","t","i","s","t","i","c","s">>, <<"p","r","e","d","i","c","t","i","v","e"," ","m","o","d","e","l","i","n","g">>, <<"d","a","t","a"," ","v","i","s","u","a","l","i","z","a","t","i","o","n">>, <<"i","n","s","i","g","h","t","s">>, <<"r","e","s","e","a","r","c","h">>, <<"j","u","p","y","t","e","r">>>>],
       [role |-> <<"S","e","c","u","r","i","t","y"," ","E","n","g","i","n","e","e","r">>, emoji |-> <<"<shield>","<vs16>">>,
        keywords |-> <<<<"s","e","c","u","r","i","t","y">>, <<"c","y","b","e","r","s","e","c","u","r","i","t","y">>, <<"e","n","c","r","y","p","t","i","o","n">>, <<"a","u","t","h","e","n","t","i","c","a","t","i","o","n">>, <<"c","o","m","p","l","i","a","n","c","e">>, <<"p","e","n","e","t","r","a","t","i","o","n"," ","t","e","s","t","i","n","g">>, <<"v","u","l","n","e","r","a","b","i","l","i","t","y">>>>],
       [role |-> <<"M","o","b","i","l","e"," ","D","e","v","e","l","o","p","e","r">>, emoji |-> <<"<phone>">>,
        keywords |-> <<<<"m","o","b","i","l","e">>, <<"i","o","s">>, <<"a","n","d","r","o","i","d">>, <<"r","e","a","c","t"," ","n","a","t","i","v","e">>, <<"f","l","u","t","t","e","r">>, <<"s","w","i","f","t">>, <<"k","o","t","l","i","n">>, <<"m","o","b","i","l","e"," ","a","p","p">>>>],
       [role |-> <<"B","l","o","c","k","c","h","a","i","n"," ","D","e","v","e","l","o","p","e","r">>, emoji |-> <<"<globe>">>,
        keywords |-> <<<<"b","l","o","c","k","c","h","a","i","n">>, <<"c","r","y","p","t","o","c","u","r","r","e","n","c","y">>, <<"s","m","a","r","t"," ","c","o","n","t","r","a","c","t","s">>, <<"e","t","h","e","r","e","u","m">>, <<"w","e","b","3">>, <<"d","e","f","i">>, <<"n","f","t">>>>] >>

\* line 103
CoreRoles == << <<"F","r","o","n","t","e","n","d"," ","D","e","v","e","l","o","p","e","r">>, <<"B","a","c","k","e","n","d"," ","D","e","v","e","l","o","p","e","r">> >>

\* line 105
GeneralTerms == {<<"w","e","b">>, <<"a","p","p">>, <<"p","l","a","t","f","o","r","m">>, <<"s","y","s","t","e","m">>, <<"f","u","l","l"," ","s","t","a","c","k">>}

\* line 109
AITerms == {<<"a","i">>, <<"a","r","t","i","f","i","c","i","a","l"," ","i","n","t","e","l","l","i","g","e","n","c","e">>, <<"m","a","c","h","i","n","e"," ","l","e","a","r","n","i","n","g">>, <<"m","l">>, <<"i","n","t","e","l","l","i","g","e","n","t">>}

\* x in xs, for a list
InList(xs, x) == \E i \in 1..Len(xs) : xs[i] = x

\* lines 97-100: the roles with a keyword in the lowered description, in taxonomy order
RECURSIVE KeywordRoles(_, _)
KeywordRoles(project_lower, i) ==
    IF i > Len(ROLE_KEYWORDS) THEN <<>>
    ELSE (IF \E k \in 1..Len(ROLE_KEYWORDS[i].keywords) :
                Contains(project_lower, ROLE_KEYWORDS[i].keywords[k])
          THEN <<ROLE_KEYWORDS[i].role>> ELSE <<>>)
             \o KeywordRoles(project_lower, i + 1)

\* AddCoreRoles that stops after the first core role
RECURSIVE AddCoreRoles_FirstOnly(_, _, _)
AddCoreRoles_FirstOnly(relevant_roles, project_lower, i) ==
    IF i > 1 THEN relevant_roles
    ELSE AddCoreRoles_FirstOnly(
             IF /\ ~InList(relevant_roles, CoreRoles[i])
                /\ \E term \in GeneralTerms : Contains(project_lower, term)
             THEN Append(relevant_roles, CoreRoles[i]) ELSE relevant_roles,
             project_lower, i + 1)

\* lines 104-106: the loop over core_roles
RECURSIVE AddCoreRoles(_, _, _)
AddCoreRoles(relevant_roles, project_lower, i) ==
    IF i > Len(CoreRoles) THEN relevant_roles
    ELSE AddCoreRoles(
             IF /\ ~InList(relevant_roles, CoreRoles[i])
                /\ \E term \in GeneralTerms : Contains(project_lower, term)
             THEN Append(relevant_roles, CoreRoles[i]) ELSE relevant_roles,
             project_lower, i + 1)

\* AddAIRole without the membership test of line 110
AddAIRole_NoMembershipTest(relevant_roles, project_lower) ==
    IF \E term \in AITerms : Contains(project_lower, term)
    THEN Append(relevant_roles, <<"A","I","/","M","L"," ","E","n","g","i","n","e","e","r">>) ELSE relevant_roles

\* lines 109-111
AddAIRole(relevant_roles, project_lower) ==
    IF /\ \E term \in AITerms : Contains(project_lower, term)
       /\ ~InList(relevant_roles, <<"A","I","/","M","L"," ","E","n","g","i","n","e","e","r">>)
    THEN Append(relevant_roles, <<"A","I","/","M","L"," ","E","n","g","i","n","e","e","r">>) ELSE relevant_roles

\* select_relevant_roles without the lower() of line 94
select_relevant_roles_CaseSensitive(project_description) ==
    AddAIRole(AddCoreRoles(KeywordRoles(project_description, 1), project_description, 1),
              project_description)

\* select_relevant_roles, lines 92-113
select_relevant_roles(project_description) ==
    LET project_lower == Lower(project_description)
    IN  AddAIRole(AddCoreRoles(KeywordRoles(project_lower, 1), project_lower, 1), project_lower)

-----------------------------------------------------------------------------
(* src/2.py: CreativeProjectBreakdownAgent.format_output *)

DigitSeq == <<"0","1","2","3","4","5","6","7","8","9">>

\* str(n) for n >= 0
RECURSIVE IntToStr(_)
IntToStr(n) ==
    IF n < 10 THEN <<DigitSeq[n + 1]>> ELSE IntToStr(n \div 10) \o <<DigitSeq[(n % 10) + 1]>>

\* c * n
Repeat(c, n) == [i \in 1..n |-> c]

\* the field width of line 242
CenterWidth == 60

\* s.center(width): the left margin is marg // 2 + (marg & width & 1)
Center(s, width) ==
    LET marg == width - Len(s)
        left == (marg \div 2) + (IF marg % 2 = 1 /\ width % 2 = 1 THEN 1 ELSE 0)
    IN  IF marg <= 0 THEN s
        ELSE Repeat(" ", left) \o s \o Repeat(" ", marg - left)

\* lines 238-242, up to the project name
BlueprintHead ==
    <<"\n","<box_dr>","<box_h>","<box_h>","<box_h>","<box_h>","<box_h>","<box_h>","<box_h>","<box_h>","<box_h>","<box_h>","<box_h>","<box_h>","<box_h>","<box_h>","<box_h>","<box_h>","<box_h>","<box_h>","<box_h>","<box_h>","<box_h>","<box_h>","<box_h>","<box_h>","<box_h>","<box_h>","<box_h>","<box_h>","<box_h>","<box_h>","<box_h>","<box_h>","<box_h>","<box_h>","<box_h>","<box_h>","<box_h>","<box_h>","<box_h>","<box_h>","<box_h>","<box_h>","<box_h>","<box_h>","<box_h>","<box_h>","<box_h>","<box_h>","<box_h>","<box_h>","<box_h>","<box_h>","<box_h>","<box_h>","<box_h>","<box_h>","<box_h>","<box_h>","<box_h>","<box_h>","<box_h>","<box_h>","<box_h>","<box_h>","<box_h>","<box_h>","<box_dl>","\n","<box_v>"," "," "," "," "," "," "," "," "," "," "," "," "," "," "," "," "," "," "," "," ","<rocket>"," ","P","R","O","J","E","C","T"," ","B","L","U","E","P","R","I","N","T"," ","<rocket>"," "," "," "," "," "," "," "," "," "," "," "," "," "," "," "," "," "," "," "," "," "," "," ","<box_v>","\n","<box_v>"," "," "," "," "," "," "," "," "," "," "," "," "," "," "," "," "," "," "," "," "," "," "," "," "," "," "," "," "," "," "," "," "," "," "," "," "," "," "," "," "," "," "," "," "," "," "," "," "," "," "," "," "," "," "," "," "," "," "," "," "," "," "," "," "," "," ","<box_v>","\n","<box_v>"," "," ">>

\* lines 242-247, after the project name
BlueprintTail ==
    <<" "," ","<box_v>","\n","<box_ur>","<box_h>","<box_h>","<box_h>","<box_h>","<box_h>","<box_h>","<box_h>","<box_h>","<box_h>","<box_h>","<box_h>","<box_h>","<box_h>","<box_h>","<box_h>","<box_h>","<box_h>","<box_h>","<box_h>","<box_h>","<box_h>","<box_h>","<box_h>","<box_h>","<box_h>","<box_h>","<box_h>","<box_h>","<box_h>","<box_h>","<box_h>","<box_h>","<box_h>","<box_h>","<box_h>","<box_h>","<box_h>","<box_h>","<box_h>","<box_h>","<box_h>","<box_h>","<box_h>","<box_h>","<box_h>","<box_h>","<box_h>","<box_h>","<box_h>","<box_h>","<box_h>","<box_h>","<box_h>","<box_h>","<box_h>","<box_h>","<box_h>","<box_h>","<box_h>","<box_h>","<box_h>","<box_h>","<box_h>","<box_h>","<box_h>","<box_h>","<box_ul>","\n","\n","<target>"," ","*","*","R","O","L","E","S"," ","&"," ","R","E","S","P","O","N","S","I","B","I","L","I","T","I","E","S"," ","B","R","E","A","K","D","O","W","N","*","*","\n","<box_h>","<box_h>","<box_h>","<box_h>","<box_h>","<box_h>","<box_h>","<box_h>","<box_h>","<box_h>","<box_h>","<box_h>","<box_h>","<box_h>","<box_h>","<box_h>","<box_h>","<box_h>","<box_h>","<box_h>","<box_h>","<box_h>","<box_h>","<box_h>","<box_h>","<box_h>","<box_h>","<box_h>","<box_h>","<box_h>","<box_h>","<box_h>","<box_h>","<box_h>","<box_h>","<box_h>","<box_h>","<box_h>","<box_h>","<box_h>","<box_h>","<box_h>","<box_h>","<box_h>","<box_h>","<box_h>","<box_h>","<box_h>","<box_h>","<box_h>","<box_h>","<box_h>","<box_h>","<box_h>","<box_h>","<box_h>","<box_h>","<box_h>","<box_h>","<box_h>","<box_h>","<box_h>","<box_h>","<box_h>","<box_h>","<box_h>","<box_h>","<box_h>","<box_h>","<box_h>","\n">>

\* lines 249-261: role_emojis.get(role, default); the table repeats ROLE_KEYWORDS' emojis
RoleEmoji(role) ==
    IF \E i \in 1..Len(ROLE_KEYWORDS) : ROLE_KEYWORDS[i].role = role
    THEN ROLE_KEYWORDS[CHOOSE i \in 1..Len(ROLE_KEYWORDS) : ROLE_KEYWORDS[i].role = role].emoji
    ELSE <<"<diamond>">>

\* line 263
TaskEmojis == << <<"<play>","<vs16>">>, <<"<sparkles>">>, <<"<wrench>">>, <<"<star>">>, <<"<rocket>">> >>

\* line 269: the rule under a role is len(role) + 15 long
RuleExtra == 15

\* line 276: the separator between roles
SeparatorLen == 70

\* lines 271-273
RECURSIVE FormatTasks(_, _)
FormatTasks(tasks, j) ==
    IF j > Len(tasks) THEN <<>>
    ELSE (IF j <= Len(TaskEmojis) THEN TaskEmojis[j] ELSE <<"<bulb>">>)
             \o <<" ">> \o tasks[j].s \o <<"\n">> \o FormatTasks(tasks, j + 1)

\* lines 265-276
RECURSIVE FormatRoles(_, _)
FormatRoles(items, i) ==
    IF i > Len(items) THEN <<>>
    ELSE <<"\n">> \o RoleEmoji(items[i].k) \o <<" ","*","*">> \o Upper(items[i].k) \o <<"*","*","\n">>
            \o Repeat("<line_h>", Len(items[i].k) + RuleExtra) \o <<"\n">>
            \o FormatTasks(items[i].v.items, 1)
            \o (IF i < Len(items) THEN <<"\n">> \o Repeat("<dash_h>", SeparatorLen) \o <<"\n">>
                ELSE <<>>)
            \o FormatRoles(items, i + 1)

\* format_output, lines 235-283
format_output(tasks_dict, project_name) ==
    BlueprintHead \o Center(project_name, CenterWidth) \o BlueprintTail
        \o FormatRoles(tasks_dict.items, 1)
        \o <<"\n","\n","<confetti>"," ","*","*","P","R","O","J","E","C","T"," ","S","U","M","M","A","R","Y","*","*","\n">>
        \o <<"<clipboard>"," ","T","o","t","a","l"," ","R","o","l","e","s",":"," ">> \o IntToStr(Len(tasks_dict.items)) \o <<"\n">>
        \o <<"<check>"," ","T","o","t","a","l"," ","T","a","s","k","s",":"," ">> \o IntToStr(SumLens(tasks_dict.items)) \o <<"\n">>
        \o <<"<rocket>"," ","R","e","a","d","y"," ","t","o"," ","b","u","i","l","d"," ","s","o","m","e","t","h","i","n","g"," ","a","m","a","z","i","n","g","!","\n">>

-----------------------------------------------------------------------------
(* src/output_formatter.py: OutputFormatter *)

\* line 47: a project name is accepted when len(project_name) > 3
MinNameLen == 3

\* line 44: the lines looked at after PROJECT BLUEPRINT line i are
\* range(i+1, min(i+4, len(lines)))
NameWindowEnd == 4

\* line 82: a task is kept when len(task_text) > 10
MinFormattedTaskLen == 10

\* lines 45-47: line j carries an acceptable project name
IsNameLine(line) ==
    /\ Len(Strip(line)) > 0
    /\ ~\E c \in {"=", "-", "*"} : HasChar(line, c)
    /\ Len(Strip(line)) > MinNameLen

\* _extract_project_name, lines 37-49: the first acceptable line after the first
\* PROJECT BLUEPRINT line that has one
_extract_project_name(t) ==
    LET lines == Split(t, "\n")
        Cand(i) == {j \in (i + 1)..(i + NameWindowEnd - 1) :
                        j <= Len(lines) /\ IsNameLine(lines[j])}
        Hits == {i \in 1..Len(lines) : Contains(lines[i], <<"P","R","O","J","E","C","T"," ","B","L","U","E","P","R","I","N","T">>) /\ Cand(i) # {}}
    IN  IF Hits = {} THEN <<"U","n","k","n","o","w","n"," ","P","r","o","j","e","c","t">>
        ELSE LET i == CHOOSE i \in Hits : \A k \in Hits : i <= k
                 j == CHOOSE j \in Cand(i) : \A k \in Cand(i) : j <= k
             IN  Strip(lines[j])

\* lines 70-71 and 86-87
SaveFormattedRole(st) ==
    IF Len(st.current_role) > 0 /\ Len(st.current_tasks) > 0
    THEN DictSet(st.roles_data, st.current_role, StrList(st.current_tasks))
    ELSE st.roles_data

\* line 79: ^\d+\.\s*(.+) on a stripped line; the text of group 1, <<>> when no match
NumberedTask(line) ==
    LET dot == SkipClass(line, 1, Digits)
    IN  IF dot > 1 /\ dot < Len(line) /\ line[dot] = "."
        THEN Strip(SubSeq(line, dot + 1, Len(line)))
        ELSE <<>>

\* lines 60-83: one iteration of the loop
FormattedLine(st, raw) ==
    LET line == Strip(raw)
        task_text == NumberedTask(line)
    IN
    IF Len(line) = 0 \/ line[1] \in {"=", "-", "."} THEN st
    ELSE IF StartsWith(line, <<"*","*">>) /\ EndsWith(line, <<"*","*">>) /\ IsUpper(line)
         THEN [roles_data |-> SaveFormattedRole(st),
               current_role |-> Strip(RemoveAll(line, <<"*","*">>)),
               current_tasks |-> <<>>]
    ELSE IF Len(st.current_role) > 0 /\ Len(task_text) > MinFormattedTaskLen
         THEN [st EXCEPT !.current_tasks = Append(@, task_text)]
    ELSE st

RECURSIVE FormattedLines(_, _, _)
FormattedLines(lines, i, st) ==
    IF i > Len(lines) THEN st ELSE FormattedLines(lines, i + 1, FormattedLine(st, lines[i]))

\* _parse_roles_and_tasks, lines 51-89
_parse_roles_and_tasks(t) ==
    SaveFormattedRole(FormattedLines(Split(t, "\n"), 1,
        [roles_data |-> EmptyDict, current_role |-> <<>>, current_tasks |-> <<>>]))

\* Summary with total_tasks counting the roles that have tasks instead of the tasks
Summary_CountsRoles(roles_data) ==
    PyDict(<< [k |-> <<"t","o","t","a","l","_","r","o","l","e","s">>, v |-> PyInt(Len(roles_data.items))],
              [k |-> <<"t","o","t","a","l","_","t","a","s","k","s">>, v |-> PyInt(Len(roles_data.items))] >>)

\* the summary of lines 29-32
Summary(roles_data) ==
    PyDict(<< [k |-> <<"t","o","t","a","l","_","r","o","l","e","s">>, v |-> PyInt(Len(roles_data.items))],
              [k |-> <<"t","o","t","a","l","_","t","a","s","k","s">>, v |-> PyInt(SumLens(roles_data.items))] >>)

\* the canonical structure of lines 26-33
Breakdown(project_name, roles_data, summary) ==
    PyDict(<< [k |-> <<"p","r","o","j","e","c","t","_","n","a","m","e">>, v |-> PyStr(project_name)],
              [k |-> <<"r","o","l","e","s","_","a","n","d","_","r","e","s","p","o","n","s","i","b","i","l","i","t","i","e","s">>, v |-> roles_data],
              [k |-> <<"s","u","m","m","a","r","y">>, v |-> summary] >>)

\* parse_formatted_output, lines 8-35
parse_formatted_output(formatted_text) ==
    LET roles_data == _parse_roles_and_tasks(formatted_text)
    IN  Breakdown(_extract_project_name(formatted_text), roles_data, Summary(roles_data))

-----------------------------------------------------------------------------
(* How an entry point ends, and what the generation call did *)

NoValue == PyLit(<<"n","u","l","l">>)

Returned(v) == [kind |-> "return", val |-> v]

\* raise ValueError(msg)
Raised(msg) == [kind |-> "raise", val |-> PyStr(msg)]

\* raise HTTPException(status_code, detail)
HTTPException(status_code, detail) ==
    [kind |-> "raise",
     val |-> PyDict(<< [k |-> <<"s","t","a","t","u","s","_","c","o","d","e">>, v |-> PyInt(status_code)],
                       [k |-> <<"d","e","t","a","i","l">>, v |-> PyStr(detail)] >>)]

\* chain.invoke(...) returned a message with this content
GenReturned(content) == [raised |-> FALSE, content |-> content]

\* chain.invoke(...) raised (timeout, upstream error)
GenRaised == [raised |-> TRUE, content |-> <<>>]

-----------------------------------------------------------------------------
(* src/1.py: SmartTaskAgent.generate_tasks_from_roles *)

\* lines 214-218: the three templated tasks of a role
FallbackTasksFor(role) ==
    StrList(<< <<"S","e","t"," ","u","p"," ","d","e","v","e","l","o","p","m","e","n","t"," ","e","n","v","i","r","o","n","m","e","n","t"," ","f","o","r"," ">> \o role,
               <<"I","m","p","l","e","m","e","n","t"," ","c","o","r","e"," ","f","u","n","c","t","i","o","n","a","l","i","t","y"," ","f","o","r"," ">> \o role,
               <<"T","e","s","t"," ","a","n","d"," ","o","p","t","i","m","i","z","e"," ">> \o role \o <<" ","c","o","m","p","o","n","e","n","t","s">> >>)

\* lines 212-218: the loop over selected_roles
RECURSIVE FallbackTasks(_, _, _)
FallbackTasks(fallback_tasks, selected_roles, i) ==
    IF i > Len(selected_roles) THEN fallback_tasks
    ELSE FallbackTasks(DictSet(fallback_tasks, selected_roles[i],
                               FallbackTasksFor(selected_roles[i])),
                       selected_roles, i + 1)

\* {"role_tasks": tasks_dict}
RoleTasksResult(tasks_dict) == PyDict(<< [k |-> <<"r","o","l","e","_","t","a","s","k","s">>, v |-> tasks_dict] >>)

\* lines 196-203
ExtractRoleTasks(parsed_result) ==
    IF parsed_result.t = "dict" /\ HasKey(parsed_result, <<"r","o","l","e","_","t","a","s","k","s">>)
    THEN Get(parsed_result, <<"r","o","l","e","_","t","a","s","k","s">>)
    ELSE parsed_result

\* TryGenerateFromRoles with the handler catching json.JSONDecodeError only: a
\* failure of the generation call escapes
TryGenerateFromRoles_NarrowExcept(selected_roles, outcome) ==
    IF outcome.raised
    THEN Raised(<<"u","p","s","t","r","e","a","m"," ","e","r","r","o","r">>)
    ELSE Returned(RoleTasksResult(ExtractRoleTasks(SmartTaskParser_parse(outcome.content))))

\* lines 184-222: the try block and its except Exception handler. outcome.raised
\* stands for any Exception raised inside the try block.
TryGenerateFromRoles(selected_roles, outcome) ==
    IF outcome.raised
    THEN Returned(RoleTasksResult(FallbackTasks(EmptyDict, selected_roles, 1)))
    ELSE Returned(RoleTasksResult(ExtractRoleTasks(SmartTaskParser_parse(outcome.content))))

\* generate_tasks_from_roles, lines 166-222
generate_tasks_from_roles(selected_roles, outcome) ==
    IF Len(selected_roles) = 0
    THEN Raised(<<"N","o"," ","r","o","l","e","s"," ","p","r","o","v","i","d","e","d","."," ","P","l","e","a","s","e"," ","p","r","o","v","i","d","e"," ","r","o","l","e","s"," ","f","r","o","m"," ","t","h","e"," ","r","o","l","e"," ","a","g","e","n","t",".">>)
    ELSE TryGenerateFromRoles(selected_roles, outcome)

-----------------------------------------------------------------------------
(* src/role_agent.py: RoleAnalysisParser and IntelligentRoleAgent.analyze_project *)

\* the character class of the role pattern, line 53
RoleLeadClass == Digits \cup {"+", ".", "-", "*", "<bullet>"}

\* the character class of the role clean-up, line 57: ^[:\-\s]+
RolePrefixClass == {":", "-"} \cup Whitespace

\* a listed role is kept when len(role) > 3, line 58
MinRoleLen == 3

\* a line on its own is a role name when it has at most 4 words, line 60
MaxRoleWords == 4

\* the characters that keep a line on its own from being a role name, line 60
RuleChars == {"=", "-", "*"}

\* len(line.split()): the number of runs of non-whitespace code points
WordCount(line) ==
    Cardinality({i \in 1..Len(line) :
                    /\ line[i] \notin Whitespace
                    /\ (i = 1 \/ line[i - 1] \in Whitespace)})

\* lines 37-48: the section a marker line switches to, "none" for any other line
SectionMarker(line) ==
    LET upper == Upper(line) IN
    IF Contains(upper, <<"S","E","L","E","C","T","E","D"," ","R","O","L","E","S",":">>) THEN "roles"
    ELSE IF Contains(upper, <<"R","E","A","S","O","N","I","N","G",":">>) \/ Contains(upper, <<"A","N","A","L","Y","S","I","S",":">>) THEN "reasoning"
    ELSE IF Contains(upper, <<"P","R","O","J","E","C","T"," ","T","Y","P","E",":">>) THEN "project_type"
    ELSE IF Contains(upper, <<"C","O","M","P","L","E","X","I","T","Y",":">>) THEN "complexity"
    ELSE "none"

\* lines 53-57: the role of a listed line (the line is stripped and matches)
ListedRole(line) ==
    LET role == Strip(SubSeq(line, SkipClass(line, 2, Whitespace), Len(line)))
    IN  Strip(SubSeq(role, SkipClass(role, 1, RolePrefixClass), Len(role)))

\* lines 51-62: a line of the roles section
RolesSectionLine(selected_roles, line) ==
    IF Len(line) >= 2 /\ line[1] \in RoleLeadClass
    THEN IF Len(ListedRole(line)) > MinRoleLen
         THEN Append(selected_roles, ListedRole(line))
         ELSE selected_roles
    ELSE IF (\A i \in 1..Len(line) : line[i] \notin RuleChars) /\ WordCount(line) <= MaxRoleWords
         THEN Append(selected_roles, line)
    ELSE selected_roles

\* AnalysisLine without the continue of the marker branches: the marker line is
\* also processed as content of the section it opens
AnalysisLine_MarkerFallsThrough(st, raw) ==
    LET line == Strip(raw)
        section == IF SectionMarker(line) # "none" THEN SectionMarker(line)
                   ELSE st.current_section
    IN
    IF Len(line) = 0 THEN st
    ELSE CASE section = "roles" ->
                  [st EXCEPT !.current_section = section,
                             !.selected_roles = RolesSectionLine(@, line)]
           [] section = "reasoning" ->
                  [st EXCEPT !.current_section = section, !.reasoning = @ \o line \o <<" ">>]
           [] section = "project_type" ->
                  [st EXCEPT !.current_section = section, !.project_type = line]
           [] section = "complexity" ->
                  [st EXCEPT !.current_section = section, !.complexity = Lower(line)]
           [] OTHER -> st

\* lines 31-67: one iteration of the loop, on the raw line
AnalysisLine(st, raw) ==
    LET line == Strip(raw) IN
    IF Len(line) = 0 THEN st
    ELSE IF SectionMarker(line) # "none" THEN [st EXCEPT !.current_section = SectionMarker(line)]
    ELSE CASE st.current_section = "roles" ->
                  [st EXCEPT !.selected_roles = RolesSectionLine(@, line)]
           [] st.current_section = "reasoning" ->
                  [st EXCEPT !.reasoning = @ \o line \o <<" ">>]
           [] st.current_section = "project_type" -> [st EXCEPT !.project_type = line]
           [] st.current_section = "complexity" -> [st EXCEPT !.complexity = Lower(line)]
           [] OTHER -> st

RECURSIVE AnalysisLines(_, _, _)
AnalysisLines(lines, i, st) ==
    IF i > Len(lines) THEN st ELSE AnalysisLines(lines, i + 1, AnalysisLine(st, lines[i]))

\* the result structure of lines 21-26 and 69
AnalysisResult(selected_roles, reasoning, project_type, complexity) ==
    PyDict(<< [k |-> <<"s","e","l","e","c","t","e","d","_","r","o","l","e","s">>, v |-> StrList(selected_roles)],
              [k |-> <<"r","e","a","s","o","n","i","n","g">>, v |-> PyStr(reasoning)],
              [k |-> <<"p","r","o","j","e","c","t","_","t","y","p","e">>, v |-> PyStr(project_type)],
              [k |-> <<"c","o","m","p","l","e","x","i","t","y">>, v |-> PyStr(complexity)] >>)

\* RoleAnalysisParser.parse, lines 15-69
RoleAnalysisParser_parse(t) ==
    LET st == AnalysisLines(Split(Strip(t), "\n"), 1,
                            [selected_roles |-> <<>>, reasoning |-> <<>>,
                             project_type |-> <<>>, complexity |-> <<"m","e","d","i","u","m">>,
                             current_section |-> "none"])
    IN  AnalysisResult(st.selected_roles, st.reasoning, st.project_type, st.complexity)

\* lines 331-337: the analysis of the except Exception handler
FallbackAnalysis ==
    AnalysisResult(<< <<"F","r","o","n","t","e","n","d"," ","D","e","v","e","l","o","p","e","r">>, <<"B","a","c","k","e","n","d"," ","D","e","v","e","l","o","p","e","r">> >>,
                   <<"F","a","l","l","b","a","c","k"," ","s","e","l","e","c","t","i","o","n"," ","d","u","e"," ","t","o"," ","a","n","a","l","y","s","i","s"," ","e","r","r","o","r">>, <<"W","e","b"," ","A","p","p","l","i","c","a","t","i","o","n">>, <<"m","e","d","i","u","m">>)

\* IntelligentRoleAgent.analyze_project, lines 304-337, and get_role_recommendations,
\* lines 339-343, which returns it
analyze_project(outcome) ==
    IF outcome.raised THEN FallbackAnalysis ELSE RoleAnalysisParser_parse(outcome.content)

-----------------------------------------------------------------------------
(* src/1.py: SmartTaskAgent.generate_from_role_agent *)

\* line 237: role_analysis.get('selected_roles', []), as a sequence of names
SelectedRolesOf(role_analysis) ==
    LET selected == Get(role_analysis, <<"s","e","l","e","c","t","e","d","_","r","o","l","e","s">>)
    IN  [i \in 1..Len(selected.items) |-> selected.items[i].s]

\* lines 239-240
NoRolesReturned == Raised(<<"R","o","l","e"," ","a","g","e","n","t"," ","d","i","d"," ","n","o","t"," ","r","e","t","u","r","n"," ","a","n","y"," ","r","o","l","e","s">>)

\* lines 245-251: the combined result; an exception of line 243 propagates
CombinedResult(selected_roles, task_analysis) ==
    IF task_analysis.kind = "raise" THEN task_analysis
    ELSE Returned(PyDict(<< [k |-> <<"s","e","l","e","c","t","e","d","_","r","o","l","e","s">>, v |-> StrList(selected_roles)],
                            [k |-> <<"r","o","l","e","_","t","a","s","k","s">>, v |-> Get(task_analysis.val, <<"r","o","l","e","_","t","a","s","k","s">>)] >>))

\* lines 243-251: the rest of generate_from_role_agent once the generation call
\* inside generate_tasks_from_roles has ended
generate_from_role_agent(selected_roles, outcome) ==
    CombinedResult(selected_roles, generate_tasks_from_roles(selected_roles, outcome))

-----------------------------------------------------------------------------
(* src/2.py: CreativeProjectBreakdownAgent.breakdown_project *)

\* lines 206-209: the selected roles, or the fallback pair
RelevantRoles(project_idea) ==
    LET relevant_roles == select_relevant_roles(project_idea)
    IN  IF Len(relevant_roles) = 0
        THEN << <<"F","r","o","n","t","e","n","d"," ","D","e","v","e","l","o","p","e","r">>, <<"B","a","c","k","e","n","d"," ","D","e","v","e","l","o","p","e","r">> >>
        ELSE relevant_roles

\* lines 219-233: the try block and its except Exception handler
breakdown_project(project_idea, outcome) ==
    IF outcome.raised THEN Returned(EmptyDict)
    ELSE Returned(EmojiSectionParse(outcome.content))

-----------------------------------------------------------------------------
(* src/task_agent.py: CreativeProjectTaskAgent.generate_tasks_for_roles *)

\* lines 161-168: the structure of the except Exception handler
ErrorSummary ==
    PyDict(<< [k |-> <<"t","o","t","a","l","_","r","o","l","e","s">>, v |-> PyInt(0)], [k |-> <<"t","o","t","a","l","_","t","a","s","k","s">>, v |-> PyInt(0)] >>)

\* generate_tasks_for_roles, lines 130-168
generate_tasks_for_roles(project_description, selected_roles, outcome) ==
    IF outcome.raised
    THEN Returned(Breakdown(project_description, EmptyDict, ErrorSummary))
    ELSE LET parsed_result == PlainSectionParse(outcome.content)
         IN  Returned(Breakdown(project_description, parsed_result, Summary(parsed_result)))

-----------------------------------------------------------------------------
(* src/api.py: POST /breakdown *)

\* line 26: Field(min_length=10, max_length=1000)
MinIdeaLen == 10

MaxIdeaLen == 1000

\* lines 102-106: TaskBreakdownResponse, status defaulting to "success" (line 33)
TaskBreakdownResponse(parsed_data) ==
    DictSet(parsed_data, <<"s","t","a","t","u","s">>, PyStr(<<"s","u","c","c","e","s","s">>))

\* lines 80-84
ServiceUnavailable ==
    HTTPException(503, <<"S","e","r","v","i","c","e"," ","n","o","t"," ","a","v","a","i","l","a","b","l","e"," ","-"," ","c","o","m","p","o","n","e","n","t","s"," ","n","o","t"," ","p","r","o","p","e","r","l","y"," ","i","n","i","t","i","a","l","i","z","e","d">>)

\* lines 90-94
CouldNotGenerate ==
    HTTPException(422, <<"C","o","u","l","d"," ","n","o","t"," ","g","e","n","e","r","a","t","e"," ","m","e","a","n","i","n","g","f","u","l"," ","t","a","s","k","s"," ","f","o","r"," ","t","h","i","s"," ","p","r","o","j","e","c","t"," ","i","d","e","a","."," ","P","l","e","a","s","e"," ","p","r","o","v","i","d","e"," ","m","o","r","e"," ","d","e","t","a","i","l","s",".">>)

\* create_project_breakdown, lines 86-114, with task_agent and output_formatter set.
\* breakdown_project catches every Exception, and the response fields have the
\* declared types, so the handler of line 110 is not entered.
create_project_breakdown(project_idea, outcome) ==
    LET tasks_dict == breakdown_project(project_idea, outcome).val
    IN  IF ~Truthy(tasks_dict) THEN CouldNotGenerate
        ELSE Returned(TaskBreakdownResponse(
                 parse_formatted_output(format_output(tasks_dict, project_idea))))

-----------------------------------------------------------------------------
(* Inputs *)

\* fragments of generation output: lines, JSON documents and whole role sections
\* (the last one a second section of a role that has a header line of its own)
OutputParts ==
    << <<"F","r","o","n","t","e","n","d"," ","D","e","v","e","l","o","p","e","r",":">>,
       <<"1","."," ","B","u","i","l","d"," ","l","o","g","i","n"," ","p","a","g","e">>,
       <<"2","."," ","A","d","d"," ","r","e","s","p","o","n","s","i","v","e"," ","n","a","v">>,
       <<"{","\"","r","o","l","e","_","t","a","s","k","s","\"",":"," ","{","\"","B","a","c","k","e","n","d"," ","D","e","v","e","l","o","p","e","r","\"",":"," ","[","\"","D","e","s","i","g","n"," ","s","c","h","e","m","a","\"",","," ","\"","B","u","i","l","d"," ","a","u","t","h"," ","A","P","I","\"","]","}","}">>,
       <<"{","\"","r","o","l","e","_","t","a","s","k","s","\"",":"," ","{","}","}">>,
       <<"U","s","e"," ","{","c","u","r","l","y","}"," ","b","r","a","c","e","s">>,
       <<"<art>"," ","F","r","o","n","t","e","n","d"," ","D","e","v","e","l","o","p","e","r",":">>,
       <<"<play>","<vs16>"," ","B","u","i","l","d"," ","t","h","e"," ","l","o","g","i","n"," ","p","a","g","e"," ","w","i","t","h"," ","R","e","a","c","t">>,
       <<"-"," ","A","d","d"," ","t","e","s","t","s">>,
       <<"H","e","r","e"," ","i","s"," ","t","h","e"," ","p","l","a","n">>,
       <<"B","a","c","k","e","n","d"," ","D","e","v","e","l","o","p","e","r",":","\n","1","."," ","D","e","s","i","g","n"," ","t","h","e"," ","d","a","t","a","b","a","s","e"," ","s","c","h","e","m","a","\n","2","."," ","B","u","i","l","d"," ","t","h","e"," ","a","u","t","h","e","n","t","i","c","a","t","i","o","n"," ","A","P","I">>,
       <<"<zap>"," ","B","a","c","k","e","n","d"," ","D","e","v","e","l","o","p","e","r",":","\n","<play>","<vs16>"," ","D","e","s","i","g","n"," ","t","h","e"," ","d","a","t","a","b","a","s","e"," ","s","c","h","e","m","a","\n","<sparkles>"," ","B","u","i","l","d"," ","t","h","e"," ","a","u","t","h","e","n","t","i","c","a","t","i","o","n"," ","A","P","I">>,
       <<"F","r","o","n","t","e","n","d"," ","D","e","v","e","l","o","p","e","r",":","\n","3","."," ","W","r","i","t","e"," ","u","n","i","t"," ","t","e","s","t","s"," ","f","o","r"," ","t","h","e"," ","f","o","r","m","s">>,
       <<"F","r","o","n","t","e","n","d"," ","D","e","v","e","l","o","p","e","r",":","\n","B","u","i","l","d"," ","t","h","e"," ","l","o","g","i","n"," ","p","a","g","e"," ","w","i","t","h"," ","R","e","a","c","t","\n","A","d","d"," ","t","h","e"," ","r","e","s","p","o","n","s","i","v","e"," ","n","a","v","i","g","a","t","i","o","n">> >>

\* the texts of 1..n fragments, one per line
PartChoices(n) == UNION {[1..k -> 1..Len(OutputParts)] : k \in 1..n}

TextOf(choice) == Join([i \in 1..Len(choice) |-> OutputParts[choice[i]]], <<"\n">>)

\* project descriptions: one that matches keywords and both forced-inclusion rules,
\* one that matches nothing, one that matches a general term only
Descriptions ==
    { <<"a"," ","m","o","b","i","l","e"," ","f","i","t","n","e","s","s"," ","a","p","p"," ","w","i","t","h"," ","A","I"," ","r","e","c","o","m","m","e","n","d","a","t","i","o","n","s">>,
      <<"k","n","i","t"," ","s","o","c","k","s"," ","b","y"," ","h","a","n","d">>,
      <<"o","n","l","i","n","e"," ","s","h","o","p"," ","p","l","a","t","f","o","r","m">> }

\* role lists handed in by a caller
SelectedRoleLists ==
    { <<>>,
      << <<"F","r","o","n","t","e","n","d"," ","D","e","v","e","l","o","p","e","r">> >>,
      << <<"B","a","c","k","e","n","d"," ","D","e","v","e","l","o","p","e","r">>, <<"F","r","o","n","t","e","n","d"," ","D","e","v","e","l","o","p","e","r">> >>,
      << <<"F","r","o","n","t","e","n","d"," ","D","e","v","e","l","o","p","e","r">>, <<"F","r","o","n","t","e","n","d"," ","D","e","v","e","l","o","p","e","r">> >>,
      << <<"A","I","/","M","L"," ","E","n","g","i","n","e","e","r">>, <<"F","r","o","n","t","e","n","d"," ","D","e","v","e","l","o","p","e","r">>, <<"B","a","c","k","e","n","d"," ","D","e","v","e","l","o","p","e","r">> >> }

\* fragments of formatted text: role headers as parse_formatted_output expects
\* them and as format_output writes them, numbered and decorated tasks, a rule
FormattedParts ==
    << <<"*","*","F","R","O","N","T","E","N","D"," ","D","E","V","E","L","O","P","E","R","*","*">>,
       <<"*","*","B","A","C","K","E","N","D"," ","D","E","V","E","L","O","P","E","R","*","*">>,
       <<"1","."," ","B","u","i","l","d"," ","t","h","e"," ","l","o","g","i","n"," ","p","a","g","e">>,
       <<"2","."," ","A","d","d"," ","t","e","s","t","s">>,
       <<"1","2","."," ","D","e","s","i","g","n"," ","t","h","e"," ","d","a","t","a","b","a","s","e"," ","s","c","h","e","m","a">>,
       <<"<art>"," ","*","*","F","R","O","N","T","E","N","D"," ","D","E","V","E","L","O","P","E","R","*","*">>,
       <<"<play>","<vs16>"," ","B","u","i","l","d"," ","t","h","e"," ","l","o","g","i","n"," ","p","a","g","e"," ","w","i","t","h"," ","R","e","a","c","t">>,
       <<"<line_h>","<line_h>","<line_h>","<line_h>","<line_h>","<line_h>","<line_h>","<line_h>","<line_h>","<line_h>">> >>

FormattedChoices(n) == UNION {[1..k -> 1..Len(FormattedParts)] : k \in 1..n}

FormattedTextOf(choice) ==
    Join([i \in 1..Len(choice) |-> FormattedParts[choice[i]]], <<"\n">>)

\* fragments of generation output that hold JSON objects of other shapes: no
\* recognized field, a recognized field that holds a list, a number or a mapping
\* to strings, and a tasks field that holds a role -> tasks mapping
DocumentParts ==
    << <<"{","\"","s","t","a","t","u","s","\"",":"," ","\"","o","k","\"","}">>,
       <<"{","\"","r","o","l","e","_","t","a","s","k","s","\"",":"," ","[","\"","D","e","s","i","g","n"," ","s","c","h","e","m","a","\"","]","}">>,
       <<"{","\"","t","a","s","k","s","\"",":"," ","5","}">>,
       <<"{","\"","r","o","l","e","_","t","a","s","k","s","\"",":"," ","{","\"","Q","A"," ","E","n","g","i","n","e","e","r","\"",":"," ","\"","W","r","i","t","e"," ","t","e","s","t","s","\"","}","}">>,
       <<"{","\"","t","a","s","k","s","\"",":"," ","{","\"","Q","A"," ","E","n","g","i","n","e","e","r","\"",":"," ","[","\"","W","r","i","t","e"," ","t","h","e"," ","r","e","g","r","e","s","s","i","o","n"," ","t","e","s","t","s","\"","]","}","}">>,
       <<"H","e","r","e"," ","i","s"," ","t","h","e"," ","p","l","a","n">> >>

DocumentChoices(n) == UNION {[1..k -> 1..Len(DocumentParts)] : k \in 1..n}

DocumentTextOf(choice) ==
    Join([i \in 1..Len(choice) |-> DocumentParts[choice[i]]], <<"\n">>)

\* fragments of project descriptions: keywords in lower and upper case, terms of
\* the forced-inclusion rules with and without a keyword, and words that match
\* nothing
DescriptionParts ==
    << <<"a"," ","m","o","b","i","l","e"," ","f","i","t","n","e","s","s"," ","a","p","p">>,
       <<"w","i","t","h"," ","A","I"," ","r","e","c","o","m","m","e","n","d","a","t","i","o","n","s">>,
       <<"k","n","i","t"," ","s","o","c","k","s"," ","b","y"," ","h","a","n","d">>,
       <<"o","n","l","i","n","e"," ","s","h","o","p"," ","p","l","a","t","f","o","r","m">>,
       <<"R","e","a","c","t"," ","D","a","s","h","b","o","a","r","d">>,
       <<"R","E","S","T"," ","A","P","I">>,
       <<"M","a","c","h","i","n","e"," ","L","e","a","r","n","i","n","g">>,
       <<"i","n","t","e","l","l","i","g","e","n","t">>,
       <<"w","i","t","h"," ","t","e","s","t","i","n","g">>,
       <<"W","e","b">> >>

DescriptionChoices(n) == UNION {[1..k -> 1..Len(DescriptionParts)] : k \in 1..n}

DescriptionOf(choice) ==
    Join([i \in 1..Len(choice) |-> DescriptionParts[choice[i]]], <<" ">>)

\* fragments of role analysis output: section markers, listed roles, a role on a
\* line of its own, a listed entry too short to be a role, and prose
AnalysisParts ==
    << <<"S","E","L","E","C","T","E","D"," ","R","O","L","E","S",":">>,
       <<"1","."," ","F","r","o","n","t","e","n","d"," ","D","e","v","e","l","o","p","e","r">>,
       <<"-"," ","B","a","c","k","e","n","d"," ","D","e","v","e","l","o","p","e","r">>,
       <<"D","a","t","a"," ","E","n","g","i","n","e","e","r">>,
       <<"2","."," ","Q","A">>,
       <<"R","E","A","S","O","N","I","N","G",":">>,
       <<"T","h","e"," ","p","r","o","j","e","c","t"," ","n","e","e","d","s"," ","a"," ","w","e","b"," ","c","l","i","e","n","t"," ","a","n","d"," ","a","n"," ","A","P","I">>,
       <<"C","o","m","p","l","e","x","i","t","y",":"," ","H","i","g","h">>,
       <<"P","R","O","J","E","C","T"," ","T","Y","P","E",":">>,
       <<"W","e","b"," ","A","p","p","l","i","c","a","t","i","o","n">> >>

AnalysisChoices(n) == UNION {[1..k -> 1..Len(AnalysisParts)] : k \in 1..n}

AnalysisTextOf(choice) ==
    Join([i \in 1..Len(choice) |-> AnalysisParts[choice[i]]], <<"\n">>)

-----------------------------------------------------------------------------
(* State machine: one call at a time, suspended only in the generation call *)

\* fragments of generated text for the calls repeated on one parser instance
RepeatedParts ==
    << <<"H","e","r","e"," ","i","s"," ","t","h","e"," ","p","l","a","n">>,
       <<"F","r","o","n","t","e","n","d"," ","D","e","v","e","l","o","p","e","r",":","\n","1","."," ","B","u","i","l","d"," ","t","h","e"," ","l","o","g","i","n"," ","p","a","g","e","\n","2","."," ","A","d","d"," ","t","h","e"," ","r","e","s","p","o","n","s","i","v","e"," ","n","a","v","i","g","a","t","i","o","n">>,
       <<"{","\"","r","o","l","e","_","t","a","s","k","s","\"",":"," ","{","\"","B","a","c","k","e","n","d"," ","D","e","v","e","l","o","p","e","r","\"",":"," ","[","\"","D","e","s","i","g","n"," ","s","c","h","e","m","a","\"",","," ","\"","B","u","i","l","d"," ","a","u","t","h"," ","A","P","I","\"","]","}","}">>,
       <<"B","a","c","k","e","n","d"," ","D","e","v","e","l","o","p","e","r",":","\n","-"," ","D","e","s","i","g","n"," ","t","h","e"," ","d","a","t","a","b","a","s","e"," ","s","c","h","e","m","a","\n","-"," ","B","u","i","l","d"," ","t","h","e"," ","a","u","t","h","e","n","t","i","c","a","t","i","o","n"," ","A","P","I">>,
       <<"<art>"," ","F","r","o","n","t","e","n","d"," ","D","e","v","e","l","o","p","e","r",":","\n","<play>","<vs16>"," ","B","u","i","l","d"," ","t","h","e"," ","l","o","g","i","n"," ","p","a","g","e"," ","w","i","t","h"," ","R","e","a","c","t","\n","<sparkles>"," ","A","d","d"," ","t","h","e"," ","r","e","s","p","o","n","s","i","v","e"," ","n","a","v","i","g","a","t","i","o","n">>,
       <<"B","a","c","k","e","n","d"," ","D","e","v","e","l","o","p","e","r",":","\n","1","."," ","W","r","i","t","e"," ","t","e","s","t","s","\n","2","."," ","R","e","v","i","e","w"," ","t","h","e"," ","A","P","I">> >>

MaxRepeatedParts == 1

RepeatedTexts ==
    {Join([i \in 1..Len(c) |-> RepeatedParts[c[i]]], <<"\n">>) :
        c \in UNION {[1..k -> 1..Len(RepeatedParts)] : k \in 1..MaxRepeatedParts}}

\* the parsers, by the entry point that calls them
InstanceParsers ==
    {"SmartTaskParser.parse", "task_agent.SmartProjectTaskParser.parse",
     "2.SmartProjectTaskParser.parse"}

\* a parser instance after construction: no call made yet. The classes define no
\* attribute, so the record holds only what the calls made on the instance were.
NewInstance ==
    [parser |-> "none", text |-> <<>>, val |-> NoValue, between |-> FALSE, last |-> EmptyDict]

\* the record of the instance once parse(t) has returned val: the first call is
\* kept, and whether a call with another text came after it
InstanceAfter(inst, parser, t, val) ==
    IF inst.parser = "none"
    THEN [parser |-> parser, text |-> t, val |-> val, between |-> FALSE, last |-> val]
    ELSE [inst EXCEPT !.last = val, !.between = @ \/ t # inst.text]

\* a parser that keeps the mapping of its previous call and returns it when the
\* text at hand yields nothing
KeepPrevious(now, previous) == IF now = EmptyDict THEN previous ELSE now

\* ParseOnInstance of a parser that carries its mapping over to the next call
ParseOnInstance_KeepsPrevious(parser, previous, t) ==
    KeepPrevious(CASE parser = "SmartTaskParser.parse" -> SmartTaskParser_parse(t)
                   [] parser = "task_agent.SmartProjectTaskParser.parse" -> PlainSectionParse(t)
                   [] parser = "2.SmartProjectTaskParser.parse" -> EmojiSectionParse(t),
                 previous)

\* parse(text) on an instance whose previous call returned previous: roles_tasks,
\* current_role and current_tasks are locals set anew by every call (1.py lines
\* 42-45, task_agent.py line 18, 2.py line 13) and no method reads or writes self
ParseOnInstance(parser, previous, t) ==
    CASE parser = "SmartTaskParser.parse" -> SmartTaskParser_parse(t)
      [] parser = "task_agent.SmartProjectTaskParser.parse" -> PlainSectionParse(t)
      [] parser = "2.SmartProjectTaskParser.parse" -> EmojiSectionParse(t)

\* the requests served at the same time
Requests == 1..2

\* a request slot with no request in flight
NoRequest == [pc |-> "idle"]

\* fragments of generated text for the line scan: headers with and without tasks
\* and with decoration, a repeated header, list items with a colon, dash items
ScanParts ==
    << <<"F","r","o","n","t","e","n","d"," ","D","e","v","e","l","o","p","e","r",":">>,
       <<"B","a","c","k","e","n","d"," ","D","e","v","e","l","o","p","e","r",":","\n","1","."," ","D","e","s","i","g","n"," ","t","h","e"," ","d","a","t","a","b","a","s","e"," ","s","c","h","e","m","a">>,
       <<"F","r","o","n","t","e","n","d"," ","D","e","v","e","l","o","p","e","r",":","\n","<sparkles>"," ","A","d","d"," ","t","h","e"," ","r","e","s","p","o","n","s","i","v","e"," ","n","a","v","i","g","a","t","i","o","n">>,
       <<"<bullet>"," ","S","e","t","u","p",":"," ","i","n","s","t","a","l","l"," ","t","h","e"," ","t","o","o","l","c","h","a","i","n"," ","f","i","r","s","t">>,
       <<"1","."," ","R","e","v","i","e","w",":"," ","c","h","e","c","k"," ","e","v","e","r","y"," ","p","u","l","l"," ","r","e","q","u","e","s","t">>,
       <<"-"," ","W","r","i","t","e"," ","t","h","e"," ","r","e","g","r","e","s","s","i","o","n"," ","t","e","s","t"," ","s","u","i","t","e">>,
       <<"<cloud>","<vs16>"," ","C","l","o","u","d"," ","&"," ","D","e","v","O","p","s"," ","E","n","g","i","n","e","e","r",":","\n","2","."," ","P","r","o","v","i","s","i","o","n"," ","t","h","e"," ","s","t","a","g","i","n","g"," ","c","l","u","s","t","e","r">>,
       <<"C","l","o","u","d"," ","&"," ","D","e","v","O","p","s"," ","E","n","g","i","n","e","e","r",":","\n","3","."," ","C","o","n","f","i","g","u","r","e"," ","t","h","e"," ","d","e","p","l","o","y","m","e","n","t"," ","p","i","p","e","l","i","n","e">>,
       <<"<art>"," ","*","*","F","r","o","n","t","e","n","d"," ","D","e","v","e","l","o","p","e","r","*","*",":","\n","1","."," ","B","u","i","l","d"," ","t","h","e"," ","l","o","g","i","n"," ","p","a","g","e"," ","w","i","t","h"," ","R","e","a","c","t">> >>

MaxScanParts == 3

ScanTexts ==
    {Join([i \in 1..Len(c) |-> ScanParts[c[i]]], <<"\n">>) :
        c \in UNION {[1..k -> 1..Len(ScanParts)] : k \in 1..MaxScanParts}}

Init ==
    /\ pc = "idle"
    /\ op = "none"
    /\ description = <<>>
    /\ roles = <<>>
    /\ gen = "none"
    /\ text = <<>>
    /\ ret = [kind |-> "none", val |-> NoValue]
    /\ invocations = 0
    /\ instance = NewInstance
    /\ requests = [r \in Requests |-> NoRequest]

\* the caller makes its next call
NextCall ==
    /\ pc = "done"
    /\ pc' = "idle"
    /\ op' = "none"
    /\ description' = <<>>
    /\ roles' = <<>>
    /\ gen' = "none"
    /\ text' = <<>>
    /\ ret' = [kind |-> "none", val |-> NoValue]
    /\ invocations' = 0
    /\ UNCHANGED <<instance, requests>>

\* SmartTaskParser().parse(text)
CallSmartTaskParser ==
    /\ pc = "idle"
    /\ \E c \in PartChoices(MaxParts) :
          /\ text' = TextOf(c)
          /\ ret' = Returned(SmartTaskParser_parse(TextOf(c)))
    /\ pc' = "done"
    /\ op' = "SmartTaskParser.parse"
    /\ UNCHANGED <<description, roles, gen, invocations, instance, requests>>

\* SmartProjectTaskParser().parse(text), task_agent.py
CallPlainSectionParser ==
    /\ pc = "idle"
    /\ \E c \in PartChoices(MaxParts) :
          /\ text' = TextOf(c)
          /\ ret' = Returned(PlainSectionParse(TextOf(c)))
    /\ pc' = "done"
    /\ op' = "task_agent.SmartProjectTaskParser.parse"
    /\ UNCHANGED <<description, roles, gen, invocations, instance, requests>>

\* SmartProjectTaskParser().parse(text), 2.py
CallEmojiSectionParser ==
    /\ pc = "idle"
    /\ \E c \in PartChoices(MaxParts) :
          /\ text' = TextOf(c)
          /\ ret' = Returned(EmojiSectionParse(TextOf(c)))
    /\ pc' = "done"
    /\ op' = "2.SmartProjectTaskParser.parse"
    /\ UNCHANGED <<description, roles, gen, invocations, instance, requests>>

\* parse(text) is called on the instance, after any calls made on it before
CallParseOnInstance ==
    /\ pc = "idle"
    /\ \E p \in InstanceParsers, t \in RepeatedTexts :
          /\ instance.parser \in {"none", p}
          /\ \E val \in {ParseOnInstance(p, instance.last, t)} :
                /\ ret' = Returned(val)
                /\ instance' = InstanceAfter(instance, p, t, val)
          /\ text' = t
          /\ op' = p
    /\ pc' = "done"
    /\ UNCHANGED <<description, roles, gen, invocations, requests>>

NextReparse ==
    \/ CallParseOnInstance
    \/ NextCall

SpecReparse == Init /\ [][NextReparse]_vars

\* SmartTaskParser().parse(text) on a text without braces: the line scan runs
CallLineScan ==
    /\ pc = "idle"
    /\ \E t \in ScanTexts :
          /\ text' = t
          /\ ret' = Returned(SmartTaskParser_parse(t))
    /\ pc' = "done"
    /\ op' = "SmartTaskParser.parse"
    /\ UNCHANGED <<description, roles, gen, invocations, instance, requests>>

NextScan ==
    \/ CallLineScan
    \/ NextCall

SpecScan == Init /\ [][NextScan]_vars

\* RoleAnalysisParser().parse(text)
CallRoleAnalysisParser ==
    /\ pc = "idle"
    /\ \E c \in AnalysisChoices(MaxAnalysisParts) :
          /\ text' = AnalysisTextOf(c)
          /\ ret' = Returned(RoleAnalysisParser_parse(AnalysisTextOf(c)))
    /\ pc' = "done"
    /\ op' = "RoleAnalysisParser.parse"
    /\ UNCHANGED <<description, roles, gen, invocations, instance, requests>>

NextAnalysis ==
    \/ CallRoleAnalysisParser
    \/ NextCall

SpecAnalysis == Init /\ [][NextAnalysis]_vars

\* ResultOf of an agent that keeps the generation result in an attribute shared by
\* all requests, where a request that has ended has left its own
ResultOf_Shared(reqs, r, outcome) ==
    IF \E q \in Requests \ {r} : reqs[q].pc = "done"
    THEN reqs[CHOOSE q \in Requests \ {r} : reqs[q].pc = "done"].outcome
    ELSE outcome

\* the generation result the call of request r goes on with: result and
\* parsed_result are locals of breakdown_project (2.py lines 222-229)
ResultOf(reqs, r, outcome) == outcome

\* request.project_idea as the handler of request r reads it (api.py lines 88 and
\* 97): request is the handler's own parameter
RequestIdea(reqs, r) == reqs[r].idea

\* POST /breakdown is received for slot r (the components are initialised): the
\* handler runs up to the chain.invoke of breakdown_project; relevant_roles is a
\* local of that call
ReceiveBreakdown(r) ==
    /\ requests[r].pc = "idle"
    /\ \E d \in Descriptions :
          /\ Len(d) >= MinIdeaLen /\ Len(d) <= MaxIdeaLen
          /\ requests' = [requests EXCEPT ![r] =
                 [pc |-> "invoking", idea |-> d, roles |-> RelevantRoles(d)]]
    /\ UNCHANGED <<pc, op, description, roles, gen, text, ret, invocations, instance>>

\* the handler of request r resumes with the outcome of its chain.invoke and runs to
\* its response: tasks_dict, formatted_output and parsed_data are its locals, and
\* the shared task_agent and output_formatter are only read
RespondWith(r, outcome) ==
    requests' = [requests EXCEPT ![r] =
        [pc |-> "done", idea |-> @.idea, outcome |-> outcome,
         response |-> create_project_breakdown(RequestIdea(requests, r),
                                               ResultOf(requests, r, outcome))]]

\* the chain.invoke of request r returns a message
GenerationReturnsTo(r) ==
    /\ requests[r].pc = "invoking"
    /\ \E t \in RepeatedTexts : RespondWith(r, GenReturned(t))
    /\ UNCHANGED <<pc, op, description, roles, gen, text, ret, invocations, instance>>

\* the chain.invoke of request r raises
GenerationRaisesTo(r) ==
    /\ requests[r].pc = "invoking"
    /\ RespondWith(r, GenRaised)
    /\ UNCHANGED <<pc, op, description, roles, gen, text, ret, invocations, instance>>

\* the response of request r has been sent; the slot takes the next request
ResponseSent(r) ==
    /\ requests[r].pc = "done"
    /\ requests' = [requests EXCEPT ![r] = NoRequest]
    /\ UNCHANGED <<pc, op, description, roles, gen, text, ret, invocations, instance>>

NextConcurrent ==
    \/ \E r \in Requests : ReceiveBreakdown(r)
    \/ \E r \in Requests : GenerationReturnsTo(r)
    \/ \E r \in Requests : GenerationRaisesTo(r)
    \/ \E r \in Requests : ResponseSent(r)

SpecConcurrent == Init /\ [][NextConcurrent]_vars

NextParser ==
    \/ CallSmartTaskParser
    \/ CallPlainSectionParser
    \/ CallEmojiSectionParser
    \/ NextCall

SpecParser == Init /\ [][NextParser]_vars

\* SmartTaskParser().parse(text) on the texts that hold JSON documents
CallSmartTaskParserOnDocument ==
    /\ pc = "idle"
    /\ \E c \in DocumentChoices(MaxDocumentParts) :
          /\ text' = DocumentTextOf(c)
          /\ ret' = Returned(SmartTaskParser_parse(DocumentTextOf(c)))
    /\ pc' = "done"
    /\ op' = "SmartTaskParser.parse"
    /\ UNCHANGED <<description, roles, gen, invocations, instance, requests>>

NextDocument ==
    \/ CallSmartTaskParserOnDocument
    \/ NextCall

SpecDocument == Init /\ [][NextDocument]_vars

\* IntelligentRoleSelector().select_relevant_roles(description)
CallSelectRelevantRoles ==
    /\ pc = "idle"
    /\ \E c \in DescriptionChoices(MaxDescriptionParts) :
          /\ description' = DescriptionOf(c)
          /\ ret' = Returned(StrList(select_relevant_roles(DescriptionOf(c))))
    /\ pc' = "done"
    /\ op' = "select_relevant_roles"
    /\ UNCHANGED <<roles, gen, text, invocations, instance, requests>>

NextSelector ==
    \/ CallSelectRelevantRoles
    \/ NextCall

SpecSelector == Init /\ [][NextSelector]_vars

\* SmartTaskAgent.generate_tasks_from_roles is called: line 178 raises on an empty
\* role list, otherwise the call runs up to chain.invoke
CallGenerateFromRoles ==
    /\ pc = "idle"
    /\ \E d \in Descriptions, rs \in SelectedRoleLists :
          /\ description' = d
          /\ roles' = rs
          /\ IF Len(rs) = 0
             THEN /\ pc' = "done"
                  /\ ret' = generate_tasks_from_roles(rs, GenRaised)
                  /\ invocations' = invocations
             ELSE /\ pc' = "invoking"
                  /\ ret' = ret
                  /\ invocations' = invocations + 1
    /\ op' = "generate_tasks_from_roles"
    /\ UNCHANGED <<gen, text, instance, requests>>

\* CreativeProjectBreakdownAgent.breakdown_project is called and runs up to chain.invoke
CallBreakdownProject ==
    /\ pc = "idle"
    /\ \E d \in Descriptions :
          /\ description' = d
          /\ roles' = RelevantRoles(d)
    /\ pc' = "invoking"
    /\ invocations' = invocations + 1
    /\ op' = "breakdown_project"
    /\ UNCHANGED <<gen, text, ret, instance, requests>>

\* CreativeProjectTaskAgent.generate_tasks_for_roles is called and runs up to chain.invoke
CallGenerateForRoles ==
    /\ pc = "idle"
    /\ \E d \in Descriptions, rs \in SelectedRoleLists :
          /\ description' = d
          /\ roles' = rs
    /\ pc' = "invoking"
    /\ invocations' = invocations + 1
    /\ op' = "generate_tasks_for_roles"
    /\ UNCHANGED <<gen, text, ret, instance, requests>>

\* what the suspended entry point does with the outcome of chain.invoke
Resume(outcome) ==
    CASE op = "generate_tasks_from_roles" -> generate_tasks_from_roles(roles, outcome)
      [] op = "breakdown_project" -> breakdown_project(description, outcome)
      [] op = "generate_tasks_for_roles" ->
             generate_tasks_for_roles(description, roles, outcome)
      [] op = "create_project_breakdown" -> create_project_breakdown(description, outcome)
      [] op = "generate_from_role_agent" -> generate_from_role_agent(roles, outcome)

\* PcAfterGeneration that sends a failed generation call back to chain.invoke once
PcAfterGeneration_RetryOnFailure(outcome) ==
    IF outcome.raised /\ invocations < 2 THEN "invoking" ELSE "done"

\* where the entry point stands once chain.invoke has ended: the try block and the
\* except handler both end in a return (1.py lines 205 and 220, 2.py lines 229 and
\* 233, task_agent.py lines 157 and 161); no path leads back to chain.invoke
PcAfterGeneration(outcome) == "done"

\* the entry point resumes with the outcome of chain.invoke; a path that led back
\* to chain.invoke would invoke it once more
AfterGeneration(outcome) ==
    /\ ret' = Resume(outcome)
    /\ pc' = PcAfterGeneration(outcome)
    /\ invocations' = IF PcAfterGeneration(outcome) = "invoking"
                      THEN invocations + 1
                      ELSE invocations

\* chain.invoke returns a message; the entry point runs to its end
GenerationReturns ==
    /\ pc = "invoking"
    /\ \E c \in PartChoices(MaxGenParts) :
          /\ text' = TextOf(c)
          /\ AfterGeneration(GenReturned(TextOf(c)))
    /\ gen' = "returned"
    /\ UNCHANGED <<op, description, roles, instance, requests>>

\* chain.invoke raises; the entry point runs to its end
GenerationRaises ==
    /\ pc = "invoking"
    /\ AfterGeneration(GenRaised)
    /\ gen' = "raised"
    /\ UNCHANGED <<op, description, roles, text, instance, requests>>

\* SmartTaskAgent.generate_from_role_agent is called and runs up to the chain.invoke
\* of the role agent's analyze_project
CallGenerateFromRoleAgent ==
    /\ pc = "idle"
    /\ \E d \in Descriptions : description' = d
    /\ pc' = "analysing"
    /\ op' = "generate_from_role_agent"
    /\ UNCHANGED <<roles, gen, text, ret, invocations, instance, requests>>

\* lines 236-243 of 1.py once the analysis call has ended: line 240 raises when no
\* role was selected, otherwise generate_tasks_from_roles runs up to its chain.invoke
AfterAnalysis(outcome) ==
    LET selected_roles == SelectedRolesOf(analyze_project(outcome))
    IN  /\ roles' = selected_roles
        /\ IF Len(selected_roles) = 0
           THEN /\ pc' = "done"
                /\ ret' = NoRolesReturned
                /\ invocations' = invocations
           ELSE /\ pc' = "invoking"
                /\ ret' = ret
                /\ invocations' = invocations + 1

\* the analysis call returns a message
AnalysisReturns ==
    /\ pc = "analysing"
    /\ \E c \in AnalysisChoices(MaxAnalysisParts) : AfterAnalysis(GenReturned(AnalysisTextOf(c)))
    /\ UNCHANGED <<op, description, gen, text, instance, requests>>

\* the analysis call raises
AnalysisRaises ==
    /\ pc = "analysing"
    /\ AfterAnalysis(GenRaised)
    /\ UNCHANGED <<op, description, gen, text, instance, requests>>

NextRoleAgent ==
    \/ CallGenerateFromRoleAgent
    \/ AnalysisReturns
    \/ AnalysisRaises
    \/ CallBreakdownProject
    \/ GenerationReturns
    \/ GenerationRaises
    \/ NextCall

SpecRoleAgent == Init /\ [][NextRoleAgent]_vars

NextOrchestrator ==
    \/ CallGenerateFromRoles
    \/ CallBreakdownProject
    \/ CallGenerateForRoles
    \/ GenerationReturns
    \/ GenerationRaises
    \/ NextCall

SpecOrchestrator == Init /\ [][NextOrchestrator]_vars

\* POST /breakdown arrives with a valid ProjectRequest: lines 80-84 answer 503 when
\* a component failed to initialise, otherwise the handler runs up to chain.invoke
\* inside breakdown_project
CallCreateProjectBreakdown ==
    /\ pc = "idle"
    /\ \E d \in Descriptions, initialised \in BOOLEAN :
          /\ Len(d) >= MinIdeaLen /\ Len(d) <= MaxIdeaLen
          /\ description' = d
          /\ IF initialised
             THEN /\ pc' = "invoking"
                  /\ roles' = RelevantRoles(d)
                  /\ ret' = ret
                  /\ invocations' = invocations + 1
             ELSE /\ pc' = "done"
                  /\ roles' = roles
                  /\ ret' = ServiceUnavailable
                  /\ invocations' = invocations
    /\ op' = "create_project_breakdown"
    /\ UNCHANGED <<gen, text, instance, requests>>

NextApi ==
    \/ CallCreateProjectBreakdown
    \/ GenerationReturns
    \/ GenerationRaises
    \/ NextCall

SpecApi == Init /\ [][NextApi]_vars

\* OutputFormatter().parse_formatted_output(text)
CallParseFormattedOutput ==
    /\ pc = "idle"
    /\ \E c \in FormattedChoices(MaxFormattedParts) :
          /\ text' = FormattedTextOf(c)
          /\ ret' = Returned(parse_formatted_output(FormattedTextOf(c)))
    /\ pc' = "done"
    /\ op' = "parse_formatted_output"
    /\ UNCHANGED <<description, roles, gen, invocations, instance, requests>>

NextFormatter ==
    \/ CallParseFormattedOutput
    \/ CallGenerateForRoles
    \/ GenerationReturns
    \/ GenerationRaises
    \/ NextCall

SpecFormatter == Init /\ [][NextFormatter]_vars

-----------------------------------------------------------------------------
(* Properties of the orchestrators *)

Orchestrators == {"generate_tasks_from_roles", "breakdown_project", "generate_tasks_for_roles"}

\* an orchestrator has returned
OrchestratorReturned == pc = "done" /\ op \in Orchestrators /\ ret.kind = "return"

\* the role -> tasks mapping inside the value an orchestrator returned
ResultMapping ==
    CASE op = "generate_tasks_from_roles" -> Get(ret.val, <<"r","o","l","e","_","t","a","s","k","s">>)
      [] op = "breakdown_project" -> ret.val
      [] op = "generate_tasks_for_roles" -> Get(ret.val, <<"r","o","l","e","s","_","a","n","d","_","r","e","s","p","o","n","s","i","b","i","l","i","t","i","e","s">>)

\* what the orchestrator's parser made of the generated text
ParsedMapping ==
    CASE op = "generate_tasks_from_roles" -> SmartTaskParser_parse(text)
      [] op = "breakdown_project" -> EmojiSectionParse(text)
      [] op = "generate_tasks_for_roles" -> PlainSectionParse(text)

\* m holds at least one role, and a role with at least one task
HasRoleAndTask(m) ==
    /\ m.t = "dict"
    /\ Len(m.items) >= 1
    /\ \E i \in 1..Len(m.items) : m.items[i].v.t = "list" /\ Len(m.items[i].v.items) >= 1

\* m has exactly the roles of rs as keys, each with three tasks that name the role
IsFallbackFor(m, rs) ==
    /\ m.t = "dict"
    /\ {m.items[i].k : i \in 1..Len(m.items)} = {rs[i] : i \in 1..Len(rs)}
    /\ \A i \in 1..Len(m.items) :
          /\ m.items[i].v.t = "list"
          /\ Len(m.items[i].v.items) = 3
          /\ \A j \in 1..3 :
                /\ m.items[i].v.items[j].t = "str"
                /\ Contains(m.items[i].v.items[j].s, m.items[i].k)

\* C1: whatever the description, the selected roles and the outcome of the
\* generation call, the breakdown an orchestrator returns holds at least one role
\* and at least one task.
C1_NeverEmpty == OrchestratorReturned => HasRoleAndTask(ResultMapping)

\* C2: when the generation call succeeds and the parser returns an empty mapping,
\* the orchestrator returns the fallback: exactly the selected roles, each with
\* three templated tasks naming the role.
C2_EmptyParseFallsBack ==
    (OrchestratorReturned /\ gen = "returned" /\ ParsedMapping = EmptyDict)
        => IsFallbackFor(ResultMapping, roles)

\* C3: when the generation call raises, the orchestrator returns a breakdown whose
\* roles are the selected roles, each with exactly three templated tasks.
C3_FailureFallsBack ==
    (pc = "done" /\ op \in Orchestrators /\ gen = "raised")
        => (ret.kind = "return" /\ IsFallbackFor(ResultMapping, roles))

\* C4: for a non-empty role list, an orchestrator entry point whose generation call
\* (or the parsing of its output) raised or returned ends by returning a value,
\* never by raising.
C4_FailureIsCaught ==
    (pc = "done" /\ op \in Orchestrators /\ Len(roles) > 0) => ret.kind = "return"

\* C4 witness: generate_tasks_from_roles and generate_tasks_for_roles have each
\* returned after the generation call raised (both are reached; the first is named)
C4_Witness ==
    /\ pc = "done"
    /\ op = "generate_tasks_from_roles"
    /\ gen = "raised"
    /\ Len(roles) > 0
    /\ ret.kind = "return"

-----------------------------------------------------------------------------
(* Properties of the canonical breakdown and of POST /breakdown *)

\* the field of a canonical breakdown
Field(breakdown, name) == Get(breakdown, name)

\* the number of tasks over all roles of m, counted role by role
TaskCount(m) ==
    LET lens == {Len(m.items[i].v.items) : i \in 1..Len(m.items)} \cup {0}
        longest == CHOOSE n \in lens : \A k \in lens : k <= n
    IN  Cardinality({<<i, j>> \in (1..Len(m.items)) \X (1..longest) :
                        j <= Len(m.items[i].v.items)})

\* C5: in every canonical breakdown produced by parse_formatted_output and by
\* generate_tasks_for_roles (success and error path), summary.total_roles is the
\* number of keys of roles_and_responsibilities and summary.total_tasks is the sum
\* of the lengths of its task lists.
C5_SummaryConsistent ==
    (pc = "done" /\ op \in {"parse_formatted_output", "generate_tasks_for_roles"})
        => /\ ret.kind = "return"
           /\ Field(Field(ret.val, <<"s","u","m","m","a","r","y">>), <<"t","o","t","a","l","_","r","o","l","e","s">>)
                 = PyInt(Len(Field(ret.val, <<"r","o","l","e","s","_","a","n","d","_","r","e","s","p","o","n","s","i","b","i","l","i","t","i","e","s">>).items))
           /\ Field(Field(ret.val, <<"s","u","m","m","a","r","y">>), <<"t","o","t","a","l","_","t","a","s","k","s">>)
                 = PyInt(TaskCount(Field(ret.val, <<"r","o","l","e","s","_","a","n","d","_","r","e","s","p","o","n","s","i","b","i","l","i","t","i","e","s">>)))

\* C5 witness: parse_formatted_output has produced a breakdown of one role with
\* two tasks
C5_Witness ==
    /\ pc = "done"
    /\ op = "parse_formatted_output"
    /\ Len(Field(ret.val, <<"r","o","l","e","s","_","a","n","d","_","r","e","s","p","o","n","s","i","b","i","l","i","t","i","e","s">>).items) = 1
    /\ Field(Field(ret.val, <<"s","u","m","m","a","r","y">>), <<"t","o","t","a","l","_","t","a","s","k","s">>) = PyInt(2)

\* POST /breakdown has answered with a success response
ApiSucceeded == pc = "done" /\ op = "create_project_breakdown" /\ ret.kind = "return"

\* the mapping breakdown_project returned inside the handler
ApiTasksDict ==
    breakdown_project(description, IF gen = "raised" THEN GenRaised ELSE GenReturned(text)).val

-----------------------------------------------------------------------------
(* Properties of the parsers *)

\* SmartTaskParser.parse has returned
SmartTaskParserReturned == pc = "done" /\ op = "SmartTaskParser.parse"

\* the role -> tasks mappings of the JSON objects with a role_tasks field that t
\* contains, each object a substring of t from a '{' to a '}'
EmbeddedMappings(t) ==
    LET Opens == {i \in 1..Len(t) : t[i] = "{"}
        Closes == {j \in 1..Len(t) : t[j] = "}"}
        Decoded == {JsonLoads(SubSeq(t, p[1], p[2])) : p \in {q \in Opens \X Closes : q[1] < q[2]}}
        Objects == {d.v : d \in {e \in Decoded : e.ok /\ e.v.t = "dict"}}
    IN  {Get(o, <<"r","o","l","e","_","t","a","s","k","s">>) :
            o \in {x \in Objects : HasKey(x, <<"r","o","l","e","_","t","a","s","k","s">>) /\ HasRoleAndTask(Get(x, <<"r","o","l","e","_","t","a","s","k","s">>))}}

\* C8: whenever the text contains a JSON object whose role_tasks field holds a
\* role -> tasks mapping, SmartTaskParser.parse returns exactly that mapping,
\* whatever prose or header lines surround the object.
C8_JsonFirst ==
    SmartTaskParserReturned => \A m \in EmbeddedMappings(text) : ret = Returned(m)

\* C9: when the JSON stage of SmartTaskParser.parse decodes an object but its result
\* holds no role with a task, the parser goes on to the text strategy and returns
\* what the line scan yields.
C9_EmptyJsonFallsThrough ==
    (SmartTaskParserReturned /\ JsonSlice(text).ok
        /\ ~HasRoleAndTask(JsonResult(JsonSlice(text).v)))
            => ret = Returned(TextParse(text))

\* a numbered line 'k. text'
IsNumberedLine(line) ==
    /\ Len(line) >= 4
    /\ line[1] \in Digits
    /\ line[2] = "."
    /\ line[3] = " "
    /\ line[4] \notin Whitespace

\* a header line 'Name:'
IsHeaderLine(line) ==
    /\ Len(line) >= 2
    /\ line[1] \in UpperLetters
    /\ Find(line, ":") = Len(line)

\* t is a header line followed by numbered lines only
IsHeaderAndNumberedLines(t) ==
    LET lines == Split(t, "\n")
    IN  /\ Len(lines) >= 2
        /\ IsHeaderLine(lines[1])
        /\ \A i \in 2..Len(lines) : IsNumberedLine(lines[i])

\* {Name: [text, ...]}: every task is the text after the enumerator
ExpectedOfNumberedLines(t) ==
    LET lines == Split(t, "\n")
    IN  PyDict(<< [k |-> SubSeq(lines[1], 1, Len(lines[1]) - 1),
                   v |-> StrList([i \in 1..(Len(lines) - 1) |->
                                     SubSeq(lines[i + 1], 4, Len(lines[i + 1]))])] >>)

\* C10: for a header line 'Name:' followed by numbered lines 'k. text',
\* SmartTaskParser.parse and the task_agent.py section parser return {Name: [text, ...]}
\* where each task is the text after the enumerator (digit, period and whitespace
\* removed).
C10_NumberedLines ==
    (pc = "done"
        /\ op \in {"SmartTaskParser.parse", "task_agent.SmartProjectTaskParser.parse"}
        /\ IsHeaderAndNumberedLines(text))
            => ret = Returned(ExpectedOfNumberedLines(text))

-----------------------------------------------------------------------------
(* Properties of the noise filter and of role retention *)

SectionParsers == {"task_agent.SmartProjectTaskParser.parse", "2.SmartProjectTaskParser.parse"}

\* a section parser has returned; emoji tells which one
SectionParserReturned == pc = "done" /\ op \in SectionParsers

EmojiParser == op = "2.SmartProjectTaskParser.parse"

\* the task strings a mapping holds under a role, and all of its task strings
TasksUnder(m, role) ==
    IF HasKey(m, role) /\ Get(m, role).t = "list"
    THEN {Get(m, role).items[j].s : j \in 1..Len(Get(m, role).items)}
    ELSE {}

AllTasksOf(m) == UNION {TasksUnder(m, m.items[i].k) : i \in 1..Len(m.items)}

\* the role sections of a text as a section parser cuts them, each as its lines
RoleSectionsOf(t, emoji) ==
    LET s == Strip(t)
        sections == SplitAt(s, IF emoji THEN EmojiCuts(s) ELSE PlainCuts(s))
        IsRoleSection(k) ==
            /\ HasChar(sections[k], ":")
            /\ emoji => \E e \in RoleEmojis : Contains(sections[k], e)
    IN  [k \in {j \in 1..Len(sections) : IsRoleSection(j)} |->
            Split(Strip(sections[k]), "\n")]

\* the cleaned text of a body line of a section
CleanedLine(line, emoji) == IF emoji THEN EmojiTask(line) ELSE PlainTask(line)

\* the body lines of a section whose cleaned text passes the length test
SurvivingLines(lines, emoji) ==
    {i \in 2..Len(lines) : Len(CleanedLine(lines[i], emoji)) > MinSectionTaskLen}

\* the candidate task lines of a section: the body lines that reach the length test
CandidateLines(lines, emoji) ==
    {i \in 2..Len(lines) : Len(CleanedLine(lines[i], emoji)) > 0}

\* section k is the one the mapping keeps under its role name: it has enough
\* surviving tasks and no later section of the same name has
IsFinalSection(secs, k, emoji) ==
    LET Enough(j) == Cardinality(SurvivingLines(secs[j], emoji)) >= MinRoleTasks
    IN  /\ Enough(k)
        /\ \A j \in DOMAIN secs :
              (j > k /\ SectionRole(secs[j][1], emoji) = SectionRole(secs[k][1], emoji))
                  => ~Enough(j)

\* the lines of a text as the line scan of SmartTaskParser sees them
ScannedLines(t) ==
    LET lines == Split(Strip(t), "\n") IN [i \in 1..Len(lines) |-> Strip(lines[i])]

IsSkippedLine(line) == Len(line) = 0 \/ line[1] \in {"=", "-", "*"}

HeaderIndexes(lines) ==
    {i \in 1..Len(lines) : ~IsSkippedLine(lines[i]) /\ IsRoleHeader(lines[i])}

\* the header line a line belongs to, 0 when there is none before it
HeaderOf(lines, i) ==
    LET before == {h \in HeaderIndexes(lines) : h < i}
    IN  IF before = {} THEN 0 ELSE CHOOSE h \in before : \A g \in before : g <= h

\* the candidate task lines of the line scan: pattern matches under a named role
ScanCandidates(lines) ==
    {i \in 1..Len(lines) :
        /\ ~IsSkippedLine(lines[i])
        /\ i \notin HeaderIndexes(lines)
        /\ TaskMatches(lines[i])
        /\ HeaderOf(lines, i) # 0
        /\ Len(CleanRoleName(lines[HeaderOf(lines, i)])) > 0}

ScanSurviving(lines, h) ==
    {i \in ScanCandidates(lines) : HeaderOf(lines, i) = h /\ Len(TaskText(lines[i])) > MinTaskLen}

\* header h opens the section the mapping keeps under its role name
IsFinalHeader(lines, h) ==
    /\ ScanSurviving(lines, h) # {}
    /\ \A g \in HeaderIndexes(lines) :
          (g > h /\ CleanRoleName(lines[g]) = CleanRoleName(lines[h]))
              => ScanSurviving(lines, g) = {}

NoiseFilterOfSections ==
    SectionParserReturned =>
        LET secs == RoleSectionsOf(text, EmojiParser)
        IN  \A k \in DOMAIN secs : \A i \in CandidateLines(secs[k], EmojiParser) :
               LET task == CleanedLine(secs[k][i], EmojiParser)
               IN  /\ i \notin SurvivingLines(secs[k], EmojiParser)
                         => task \notin AllTasksOf(ret.val)
                   /\ (i \in SurvivingLines(secs[k], EmojiParser)
                          /\ IsFinalSection(secs, k, EmojiParser))
                         => task \in TasksUnder(ret.val, SectionRole(secs[k][1], EmojiParser))

\* C11 amended, line scan of SmartTaskParser (reached when the JSON slice does not
\* decode): the same, with the threshold of line 75 and one surviving task enough
\* to keep a section.
NoiseFilterOfScan ==
    (SmartTaskParserReturned /\ ~JsonSlice(text).ok) =>
        LET lines == ScannedLines(text)
        IN  \A i \in ScanCandidates(lines) :
               LET task == TaskText(lines[i])
                   h == HeaderOf(lines, i)
               IN  /\ Len(task) <= MinTaskLen => task \notin AllTasksOf(ret.val)
                   /\ (Len(task) > MinTaskLen /\ IsFinalHeader(lines, h))
                         => task \in TasksUnder(ret.val, CleanRoleName(lines[h]))

AllParsers == SectionParsers \cup {"SmartTaskParser.parse"}

\* C12: in every parser, a role section with exactly one surviving task is dropped
\* and one with two or more is retained, so every role of a parsed mapping has at
\* least two tasks.
C12_RoleRetention ==
    (pc = "done" /\ op \in AllParsers /\ ret.val.t = "dict")
        => \A i \in 1..Len(ret.val.items) :
              /\ ret.val.items[i].v.t = "list"
              /\ Len(ret.val.items[i].v.items) >= MinRoleTasks

\* no role section of the text holds a task that survives: for the line scan no
\* header with a surviving candidate, for the section parsers no section with
\* enough surviving lines
NothingRecognized ==
    IF op = "SmartTaskParser.parse"
    THEN LET lines == ScannedLines(text)
         IN  \A h \in HeaderIndexes(lines) :
                ScanSurviving(lines, h) = {} \/ Len(CleanRoleName(lines[h])) = 0
    ELSE LET secs == RoleSectionsOf(text, EmojiParser)
         IN  \A k \in DOMAIN secs :
                Cardinality(SurvivingLines(secs[k], EmojiParser)) < MinRoleTasks

-----------------------------------------------------------------------------
(* Properties of the value SmartTaskParser.parse returns *)

\* v is a mapping from role names to sequences of task strings
IsRoleTaskMapping(v) ==
    /\ v.t = "dict"
    /\ \A i \in 1..Len(v.items) :
          /\ v.items[i].v.t = "list"
          /\ \A j \in 1..Len(v.items[i].v.items) : v.items[i].v.items[j].t = "str"

\* C14: every value SmartTaskParser.parse returns is a mapping from role name to a
\* sequence of task strings, also for a text whose JSON object has none of the
\* recognized fields or whose recognized field holds something else.
C14_ReturnsMapping == SmartTaskParserReturned => IsRoleTaskMapping(ret.val)

-----------------------------------------------------------------------------
(* Properties of role selection *)

\* select_relevant_roles has returned; Selected is the sequence of role names
SelectorReturned == pc = "done" /\ op = "select_relevant_roles"

Selected == [i \in 1..Len(ret.val.items) |-> ret.val.items[i].s]

IsSelected(role) == \E i \in 1..Len(Selected) : Selected[i] = role

\* sub is a substring of d when the case of d's letters is ignored (sub is in lower case)
IsSubstringIgnoringCase(d, sub) ==
    \E p \in 1..(Len(d) - Len(sub) + 1) :
        \A k \in 1..Len(sub) : LowerChar(d[p + k - 1]) = sub[k]

TaxonomyIndex(role) == CHOOSE i \in 1..Len(ROLE_KEYWORDS) : ROLE_KEYWORDS[i].role = role

TaxonomyRoles == {ROLE_KEYWORDS[i].role : i \in 1..Len(ROLE_KEYWORDS)}

\* one of the role's keywords is in the description
KeywordMatches(role, d) ==
    \E k \in 1..Len(ROLE_KEYWORDS[TaxonomyIndex(role)].keywords) :
        IsSubstringIgnoringCase(d, ROLE_KEYWORDS[TaxonomyIndex(role)].keywords[k])

HasGeneralTerm(d) ==
    \E term \in {<<"w","e","b">>, <<"a","p","p">>, <<"p","l","a","t","f","o","r","m">>, <<"s","y","s","t","e","m">>, <<"f","u","l","l"," ","s","t","a","c","k">>} :
        IsSubstringIgnoringCase(d, term)

HasAITerm(d) ==
    \E term \in {<<"a","i">>, <<"a","r","t","i","f","i","c","i","a","l"," ","i","n","t","e","l","l","i","g","e","n","c","e">>, <<"m","a","c","h","i","n","e"," ","l","e","a","r","n","i","n","g">>, <<"m","l">>, <<"i","n","t","e","l","l","i","g","e","n","t">>} :
        IsSubstringIgnoringCase(d, term)

\* a forced-inclusion rule applies to the role
ForcedIn(role, d) ==
    \/ role \in {<<"F","r","o","n","t","e","n","d"," ","D","e","v","e","l","o","p","e","r">>, <<"B","a","c","k","e","n","d"," ","D","e","v","e","l","o","p","e","r">>} /\ HasGeneralTerm(d)
    \/ role = <<"A","I","/","M","L"," ","E","n","g","i","n","e","e","r">> /\ HasAITerm(d)

NoDuplicateRole == \A i, j \in 1..Len(Selected) : Selected[i] = Selected[j] => i = j

\* the place of a role among the force-included ones
ForcedRank(role) ==
    CASE role = <<"F","r","o","n","t","e","n","d"," ","D","e","v","e","l","o","p","e","r">> -> 1
      [] role = <<"B","a","c","k","e","n","d"," ","D","e","v","e","l","o","p","e","r">> -> 2
      [] OTHER -> 3

\* C15 as stated: the selection has no duplicate role and is in the taxonomy
\* iteration order of ROLE_KEYWORDS, also when a forced-inclusion rule adds a role.
C15_TaxonomyOrder ==
    SelectorReturned =>
        /\ NoDuplicateRole
        /\ \A i, j \in 1..Len(Selected) :
              i < j => TaxonomyIndex(Selected[i]) < TaxonomyIndex(Selected[j])

\* C15 amended: the selection has no duplicate role; the roles matched by a keyword
\* come first, in taxonomy order, and the roles only a forced-inclusion rule adds
\* follow them in the order Frontend Developer, Backend Developer, AI/ML Engineer.
C15_KeywordThenForcedOrder ==
    SelectorReturned =>
        /\ NoDuplicateRole
        /\ \A i, j \in 1..Len(Selected) :
              i < j =>
                 LET mi == KeywordMatches(Selected[i], description)
                     mj == KeywordMatches(Selected[j], description)
                 IN  /\ mj => mi
                     /\ (mi /\ mj) => TaxonomyIndex(Selected[i]) < TaxonomyIndex(Selected[j])
                     /\ (~mi /\ ~mj) => ForcedRank(Selected[i]) < ForcedRank(Selected[j])

\* C15 witness: a forced-inclusion rule has added a role behind a keyword role that
\* comes later in the taxonomy, and the AI/ML role is matched by keyword and by rule
C15_Witness ==
    /\ SelectorReturned
    /\ \E i, j \in 1..Len(Selected) :
          /\ i < j
          /\ TaxonomyIndex(Selected[i]) > TaxonomyIndex(Selected[j])
    /\ KeywordMatches(<<"A","I","/","M","L"," ","E","n","g","i","n","e","e","r">>, description)
    /\ HasAITerm(description)

\* C16: a role is in the selection if and only if one of its keywords is a
\* case-insensitive substring of the description or a forced-inclusion rule applies
\* to it; nothing else is selected.
C16_SelectedIffMatched ==
    SelectorReturned =>
        /\ \A i \in 1..Len(Selected) : Selected[i] \in TaxonomyRoles
        /\ \A role \in TaxonomyRoles :
              IsSelected(role) <=> (KeywordMatches(role, description) \/ ForcedIn(role, description))

\* C16 witness: a role is selected through a keyword written in upper case in the
\* description, and another role of the taxonomy is not selected
C16_Witness ==
    /\ SelectorReturned
    /\ IsSelected(<<"F","r","o","n","t","e","n","d"," ","D","e","v","e","l","o","p","e","r">>)
    /\ ~ForcedIn(<<"F","r","o","n","t","e","n","d"," ","D","e","v","e","l","o","p","e","r">>, description)
    /\ Contains(description, <<"R","e","a","c","t">>)
    /\ ~IsSelected(<<"Q","A"," ","E","n","g","i","n","e","e","r">>)

\* C17: a description with a general-application term selects both Frontend
\* Developer and Backend Developer, also without a keyword match, one with an AI/ML
\* term selects AI/ML Engineer, and 'a mobile fitness app with AI recommendations'
\* selects a mobile or front-end role and the AI/ML role.
C17_ForcedInclusion ==
    SelectorReturned =>
        /\ HasGeneralTerm(description)
              => IsSelected(<<"F","r","o","n","t","e","n","d"," ","D","e","v","e","l","o","p","e","r">>) /\ IsSelected(<<"B","a","c","k","e","n","d"," ","D","e","v","e","l","o","p","e","r">>)
        /\ HasAITerm(description) => IsSelected(<<"A","I","/","M","L"," ","E","n","g","i","n","e","e","r">>)
        /\ description = <<"a"," ","m","o","b","i","l","e"," ","f","i","t","n","e","s","s"," ","a","p","p"," ","w","i","t","h"," ","A","I"," ","r","e","c","o","m","m","e","n","d","a","t","i","o","n","s">>
              => /\ IsSelected(<<"M","o","b","i","l","e"," ","D","e","v","e","l","o","p","e","r">>) \/ IsSelected(<<"F","r","o","n","t","e","n","d"," ","D","e","v","e","l","o","p","e","r">>)
                 /\ IsSelected(<<"A","I","/","M","L"," ","E","n","g","i","n","e","e","r">>)

\* C17 witness: the core pair is selected on a general term alone, no keyword of
\* either role being in the description
C17_Witness ==
    /\ SelectorReturned
    /\ HasGeneralTerm(description)
    /\ ~KeywordMatches(<<"F","r","o","n","t","e","n","d"," ","D","e","v","e","l","o","p","e","r">>, description)
    /\ ~KeywordMatches(<<"B","a","c","k","e","n","d"," ","D","e","v","e","l","o","p","e","r">>, description)
    /\ IsSelected(<<"F","r","o","n","t","e","n","d"," ","D","e","v","e","l","o","p","e","r">>)
    /\ IsSelected(<<"B","a","c","k","e","n","d"," ","D","e","v","e","l","o","p","e","r">>)

-----------------------------------------------------------------------------
(* Properties of the generation call *)

\* C19: within one request the task-generation call is invoked at most once; it is
\* not retried after it fails nor after its output parses to an empty mapping. A
\* request that has ended after the call has invoked it exactly once.
C19_AtMostOneInvocation ==
    /\ invocations <= 1
    /\ (pc = "done" /\ gen # "none") => invocations = 1
    /\ pc = "invoking" => invocations = 1

\* C19 witness: breakdown_project has ended after a failed generation call, and
\* invoked it once
C19_Witness ==
    /\ pc = "done"
    /\ op = "breakdown_project"
    /\ gen = "raised"
    /\ invocations = 1

-----------------------------------------------------------------------------
(* Properties of the role list handed to task generation *)

DefaultRoles == << <<"F","r","o","n","t","e","n","d"," ","D","e","v","e","l","o","p","e","r">>, <<"B","a","c","k","e","n","d"," ","D","e","v","e","l","o","p","e","r">> >>

\* C18: the role list handed to task generation is never empty: when the selection
\* stage yields no role (no keyword match, an analysis that parsed to zero roles, a
\* failed analysis call) the two-role default is substituted and the request goes
\* on to the generation call instead of failing.
C18_RolesNeverEmpty ==
    /\ (op \in {"breakdown_project", "generate_from_role_agent"} /\ pc = "invoking")
          => Len(roles) > 0
    /\ (op = "breakdown_project" /\ pc = "invoking"
            /\ select_relevant_roles(description) = <<>>)
          => roles = DefaultRoles
    /\ (op = "generate_from_role_agent" /\ pc = "done")
          => (ret.kind = "return" /\ gen # "none")

ScanRan == SmartTaskParserReturned /\ ~JsonSlice(text).ok

\* the surviving tasks filed under header h, in the order of their lines
OrderedTasks(lines, h) ==
    LET S == ScanSurviving(lines, h)
    IN  [k \in 1..Cardinality(S) |->
            TaskText(lines[CHOOSE i \in S : Cardinality({j \in S : j < i}) = k - 1])]

BeginsWithEnumerator(line) ==
    /\ Len(line) >= 1
    /\ \/ Len(line) >= 2 /\ line[1] \in Digits /\ line[2] = "."
       \/ line[1] \in {"-", "*", "<bullet>"} \cup TaskEmojiClass

\* C23: in the line scan a line that begins with a leading enumerator is never
\* treated as a role header, even when it contains a colon: every role of the
\* mapping is named by a line with a colon that does not begin with an enumerator.
C23_EnumeratedLineIsNoHeader ==
    ScanRan =>
        LET lines == ScannedLines(text)
        IN  \A n \in 1..Len(ret.val.items) :
               \E h \in 1..Len(lines) :
                  /\ HasChar(lines[h], ":")
                  /\ ~BeginsWithEnumerator(lines[h])
                  /\ ret.val.items[n].k = CleanRoleName(lines[h])

\* no header after line i names the role of header h again
NotNamedAgain(lines, h) ==
    \A g \in HeaderIndexes(lines) :
        g > h => CleanRoleName(lines[g]) # CleanRoleName(lines[h])

\* C24: in the line scan every line under a current role that matches the
\* enumerator pattern and whose cleaned remainder meets the length threshold is a
\* task of that role (when the role is not named again by a later header), dash
\* and asterisk items included.
C24_EnumeratedLineIsTask ==
    ScanRan =>
        LET lines == ScannedLines(text)
        IN  \A i \in 1..Len(lines) :
               LET h == HeaderOf(lines, i)
               IN  (/\ TaskMatches(lines[i])
                    /\ ~HasChar(lines[i], ":")
                    /\ Len(TaskText(lines[i])) > MinTaskLen
                    /\ h # 0
                    /\ Len(CleanRoleName(lines[h])) > 0
                    /\ NotNamedAgain(lines, h))
                       => TaskText(lines[i]) \in TasksUnder(ret.val, CleanRoleName(lines[h]))

\* a role name without decoration: symbols, emphasis markers and colon removed
Undecorated(name) ==
    Strip(RemoveChar(RemoveAll(SubClassEverywhere(name, RoleEmojiClass), <<"*","*">>), ":"))

\* C25: header lines that differ only in decoration are cleaned to one role name:
\* no two keys of the parsed mapping differ only in decoration.
C25_DecorationCollapses ==
    ScanRan =>
        \A n1, n2 \in 1..Len(ret.val.items) :
            Undecorated(ret.val.items[n1].k) = Undecorated(ret.val.items[n2].k) => n1 = n2

\* the first header line that names the role, 0 when there is none
FirstHeaderOf(lines, role) ==
    LET named == {h \in HeaderIndexes(lines) : CleanRoleName(lines[h]) = role}
    IN  IF named = {} THEN 0 ELSE CHOOSE h \in named : \A g \in named : h <= g

\* C28: the keys of the mapping built by the line scan are unique and in role
\* discovery order: of two roles of the mapping, the one whose header first appears
\* earlier in the text comes earlier in the mapping.
C28_DiscoveryOrder ==
    ScanRan =>
        LET lines == ScannedLines(text)
        IN  \A n1, n2 \in 1..Len(ret.val.items) :
               n1 < n2 =>
                  /\ ret.val.items[n1].k # ret.val.items[n2].k
                  /\ FirstHeaderOf(lines, ret.val.items[n1].k)
                        < FirstHeaderOf(lines, ret.val.items[n2].k)

\* the lines of a text as a section parser splits them
SectionLines(t) == Split(Strip(t), "\n")

\* the line itself matches the header pattern: capitalized text and a colon on the
\* same line, after the marker symbol where the parser requires one
IsSectionHeaderLine(line, emoji) ==
    IF emoji
    THEN \E e \in RoleEmojis :
            /\ StartsWith(line, e)
            /\ HeaderAhead(line, SkipClass(line, 1 + Len(e), Whitespace))
    ELSE HeaderAhead(line, 1)

\* the body lines of the section that header line h starts: the lines up to the
\* next header line
SectionBody(lines, h, emoji) ==
    {i \in (h + 1)..Len(lines) :
        \A g \in (h + 1)..i : ~IsSectionHeaderLine(lines[g], emoji)}

\* the body lines of that section whose cleaned text passes the length test
BodyTasks(lines, h, emoji) ==
    {i \in SectionBody(lines, h, emoji) :
        Len(CleanedLine(lines[i], emoji)) > MinSectionTaskLen}

\* C26: in the section-split parsers a section starts only at a line that itself
\* matches the header pattern, and every line up to the next such line is its body:
\* a section with enough surviving body lines, whose role no later header line
\* names, is in the mapping with exactly those lines' tasks, in order.
C26_SectionsStartAtHeaders ==
    SectionParserReturned =>
        LET lines == SectionLines(text)
            Headers == {h \in 1..Len(lines) : IsSectionHeaderLine(lines[h], EmojiParser)}
        IN  \A h \in Headers :
               LET S == BodyTasks(lines, h, EmojiParser)
                   role == SectionRole(lines[h], EmojiParser)
               IN  (/\ Cardinality(S) >= MinRoleTasks
                    /\ \A g \in Headers :
                          g > h => SectionRole(lines[g], EmojiParser) # role)
                      => /\ HasKey(ret.val, role)
                         /\ Get(ret.val, role) =
                               StrList([k \in 1..Cardinality(S) |->
                                   CleanedLine(lines[CHOOSE i \in S :
                                       Cardinality({j \in S : j < i}) = k - 1], EmojiParser)])

\* what the line scan of src/1.py makes of a candidate task line: the cleaned text
\* when it is accepted, <<>> when it is rejected (lines 68-76)
ScanCleaned(line) ==
    IF TaskMatches(line) /\ Len(TaskText(line)) > MinTaskLen THEN TaskText(line) ELSE <<>>

\* what a section parser makes of it (task_agent.py lines 32-39, 2.py lines 27-35)
SectionCleaned(line, emoji) ==
    IF Len(CleanedLine(line, emoji)) > MinSectionTaskLen
    THEN CleanedLine(line, emoji)
    ELSE <<>>

\* the candidate task lines of a text that every strategy takes for a list item: a
\* leading enumerator, no colon, not a separator of the line scan
ListItems(t) ==
    LET lines == ScannedLines(t)
    IN  {lines[i] : i \in {j \in 1..Len(lines) :
            /\ BeginsWithEnumerator(lines[j])
            /\ ~HasChar(lines[j], ":")
            /\ ~IsSkippedLine(lines[j])}}

\* C27: task-text cleaning is uniform across strategies: every candidate task line
\* of a parsed text is accepted or rejected alike, and cleaned to the same string,
\* by the line scan of src/1.py and by the two section parsers.
C27_UniformCleaning ==
    (pc = "done" /\ op \in AllParsers) =>
        \A line \in ListItems(text) :
            /\ ScanCleaned(line) = SectionCleaned(line, FALSE)
            /\ ScanCleaned(line) = SectionCleaned(line, TRUE)

AnalysisParsed == pc = "done" /\ op = "RoleAnalysisParser.parse"

\* the non-empty lines of an analysis text, stripped
ContentLines(t) ==
    LET lines == ScannedLines(t)
        kept == {i \in 1..Len(lines) : Len(lines[i]) > 0}
    IN  [k \in 1..Cardinality(kept) |->
            lines[CHOOSE i \in kept : Cardinality({j \in kept : j < i}) = k - 1]]

\* the section line i lies in: the one of the latest marker line before it
SectionOf(lines, i) ==
    LET markers == {m \in 1..(i - 1) : SectionMarker(lines[m]) # "none"}
    IN  IF markers = {} THEN "none"
        ELSE SectionMarker(lines[CHOOSE m \in markers : \A g \in markers : g <= m])

\* the content lines of a section: its lines that are no marker lines
LinesIn(lines, section) ==
    {i \in 1..Len(lines) :
        SectionMarker(lines[i]) = "none" /\ SectionOf(lines, i) = section}

\* the k-th element of a set of line numbers
NthOf(S, k) == CHOOSE i \in S : Cardinality({j \in S : j < i}) = k - 1

\* the lines of S from the k-th on, each followed by a space
RECURSIVE JoinedLines(_, _, _)
JoinedLines(lines, S, k) ==
    IF k > Cardinality(S) THEN <<>>
    ELSE lines[NthOf(S, k)] \o <<" ">> \o JoinedLines(lines, S, k + 1)

====
